---- MODULE Spec2Model ----
(***************************************************************************)
(* Extraction / deduplication / scoring pipeline of the interview-to-user- *)
(* stories worker:                                                         *)
(*   src/worker/processors/deduplication.py    (DeduplicationEngine)       *)
(*   src/worker/processors/extraction_engine.py (ExtractionEngine)         *)
(*                                                                         *)
(* Story records are Python dicts: here functions from key strings to      *)
(* values.  Texts are strings, handled character by character.  Scores are *)
(* floats in the code: here exact integers in units of 1/ScoreOne, a unit  *)
(* fine enough that the mean of a duplicate group and every weighted sum   *)
(* below is an integer.                                                    *)
(***************************************************************************)
EXTENDS Integers, Sequences, FiniteSets, TLC

(***************************************************************************)
(* Characters and Python's str primitives                                  *)
(***************************************************************************)
LowerLetters == "abcdefghijklmnopqrstuvwxyz"
UpperLetters == "ABCDEFGHIJKLMNOPQRSTUVWXYZ"
DigitChars == "0123456789"
\* printable ASCII in code point order (without the double quote, the backslash and the backquote)
AsciiPrintable ==
  " !#$%&'()*+,-./0123456789:;<=>?@ABCDEFGHIJKLMNOPQRSTUVWXYZ[]^_abcdefghijklmnopqrstuvwxyz{|}~"

CharAt(s, i) == SubSeq(s, i, i)

CharsOf(s) == {CharAt(s, i) : i \in 1..Len(s)}

\* the rank of a character in code point order: the order Python compares strings by
OrdTable == [c \in CharsOf(AsciiPrintable) |->
               CHOOSE i \in 1..Len(AsciiPrintable) : CharAt(AsciiPrintable, i) = c]

Ord(c) == OrdTable[c]

LowerTable == [c \in CharsOf(UpperLetters) |->
                 CharAt(LowerLetters, CHOOSE i \in 1..26 : CharAt(UpperLetters, i) = c)]

WordChars == CharsOf(LowerLetters) \cup CharsOf(UpperLetters) \cup CharsOf(DigitChars) \cup {"_"}

SpaceChars == {" ", "\t", "\n", "\r"}

\* c.lower()
LowerChar(c) == IF c \in DOMAIN LowerTable THEN LowerTable[c] ELSE c

\* str.lower(), halving the string to keep the evaluation shallow
RECURSIVE Lower(_)
Lower(s) ==
  IF s = "" THEN ""
  ELSE IF Len(s) = 1 THEN LowerChar(s)
  ELSE Lower(SubSeq(s, 1, Len(s) \div 2)) \o Lower(SubSeq(s, Len(s) \div 2 + 1, Len(s)))

\* str.strip()
RECURSIVE LStrip(_)
LStrip(s) == IF s /= "" /\ Head(s) \in SpaceChars THEN LStrip(Tail(s)) ELSE s

RECURSIVE RStrip(_)
RStrip(s) ==
  IF s /= "" /\ CharAt(s, Len(s)) \in SpaceChars THEN RStrip(SubSeq(s, 1, Len(s) - 1)) ELSE s

Strip(s) == RStrip(LStrip(s))

\* needle in hay  (substring test)
Contains(hay, needle) ==
  \E i \in 1..(Len(hay) - Len(needle) + 1) : SubSeq(hay, i, i + Len(needle) - 1) = needle

\* the positions at which needle occurs in hay
Occurrences(hay, needle) ==
  {i \in 1..(Len(hay) - Len(needle) + 1) : SubSeq(hay, i, i + Len(needle) - 1) = needle}

\* the first position of needle in hay, 0 if none
Find(hay, needle) ==
  LET at == Occurrences(hay, needle)
  IN  IF at = {} THEN 0 ELSE CHOOSE i \in at : \A j \in at : i <= j

\* the pieces of s between the positions in cuts, from position i on (cuts
\* holds Len(s) + 1); with_empty keeps the empty pieces
RECURSIVE Pieces(_, _, _, _)
Pieces(s, cuts, i, with_empty) ==
  IF i > Len(s) + 1 THEN <<>>
  ELSE LET cut == CHOOSE c \in cuts : c >= i /\ \A d \in cuts : d >= i => c <= d
       IN  (IF cut > i \/ with_empty THEN <<SubSeq(s, i, cut - 1)>> ELSE <<>>)
           \o Pieces(s, cuts, cut + 1, with_empty)

\* str.split(): the maximal runs of non-whitespace characters, in order
Split(s) ==
  Pieces(s, {i \in 1..Len(s) : CharAt(s, i) \in SpaceChars} \cup {Len(s) + 1}, 1, FALSE)

\* str.split(sep) for a one-character separator: keeps the empty pieces
SplitOn(s, sep) ==
  Pieces(s, {i \in 1..Len(s) : CharAt(s, i) = sep} \cup {Len(s) + 1}, 1, TRUE)

\* sep.join(words)
RECURSIVE Join(_, _)
Join(sep, words) ==
  IF words = <<>> THEN ""
  ELSE IF Len(words) = 1 THEN words[1]
  ELSE words[1] \o sep \o Join(sep, Tail(words))

\* [x for x in xs if x not in drop]
RECURSIVE Without(_, _)
Without(xs, drop) ==
  IF xs = <<>> THEN <<>>
  ELSE (IF xs[1] \in drop THEN <<>> ELSE <<xs[1]>>) \o Without(Tail(xs), drop)

SeqToSet(xs) == {xs[i] : i \in 1..Len(xs)}

\* a < b for Python strings (code point order, a proper prefix first)
RECURSIVE StrLess(_, _)
StrLess(a, b) ==
  IF b = "" THEN FALSE
  ELSE IF a = "" THEN TRUE
  ELSE IF Head(a) = Head(b) THEN StrLess(Tail(a), Tail(b))
  ELSE Ord(Head(a)) < Ord(Head(b))

(***************************************************************************)
(* DeduplicationEngine: text normalisation                                 *)
(***************************************************************************)
filler_words ==
  {"the", "a", "an", "and", "or", "but", "in", "on", "at", "to", "for", "of", "with", "by"}

\* re.sub(r'[^\w\s]', ' ', text)
RECURSIVE PunctToSpace(_)
PunctToSpace(s) ==
  IF s = "" THEN ""
  ELSE IF Len(s) = 1 THEN (IF s \in WordChars \cup SpaceChars THEN s ELSE " ")
  ELSE PunctToSpace(SubSeq(s, 1, Len(s) \div 2))
       \o PunctToSpace(SubSeq(s, Len(s) \div 2 + 1, Len(s)))

\* Python's None where a text is expected (TLC compares values of one type only,
\* so None stands at a key as a value of the type of that key)
NoneText == "<None>"

\* lowercase, punctuation to spaces, whitespace collapsed, filler words dropped;
\* "if not text" catches None and the empty text
_normalize_text(text) ==
  IF text = "" \/ text = NoneText THEN ""
  ELSE Join(" ", Without(Split(PunctToSpace(Lower(text))), filler_words))

(***************************************************************************)
(* Story records                                                           *)
(***************************************************************************)
\* story.get(key, default)
Get(story, key, default) == IF key \in DOMAIN story THEN story[key] ELSE default

\* story[key] = value
Put(story, key, value) == (key :> value) @@ story

ListKeys == {"Tags", "requirements", "acceptance_criteria", "source_files"}

\* None as the value of key: in place of a list, of a number, of a text
NoneAt(key) ==
  IF key \in ListKeys THEN <<NoneText>>
  ELSE IF key \in {"Match Score", "duplicate_count"} THEN 0 - 1
  ELSE NoneText

\* story[key] is None
IsNull(story, key) == key \in DOMAIN story /\ story[key] = NoneAt(key)

\* Python truthiness of story.get(key): a missing key, None, "", [] and 0 are false
Truthy(story, key) ==
  /\ key \in DOMAIN story
  /\ ~IsNull(story, key)
  /\ IF key \in ListKeys THEN story[key] /= <<>>
     ELSE IF key \in {"Match Score", "duplicate_count"} THEN story[key] /= 0
     ELSE story[key] /= ""

\* the copy _clean_stories makes of one story, with the clean_* keys added
CleanStory(story) ==
  LET c1 == IF "User Story" \in DOMAIN story
              THEN Put(story, "clean_text", _normalize_text(story["User Story"]))
              ELSE story
      c2 == IF "Capability" \in DOMAIN story
              THEN Put(c1, "clean_capability", _normalize_text(story["Capability"]))
              ELSE c1
  IN  IF "Snippet" \in DOMAIN story
        THEN Put(c2, "clean_snippet", _normalize_text(story["Snippet"]))
        ELSE c2

(***************************************************************************)
(* Similarity.  A ratio is a pair <<numerator, denominator>>.              *)
(***************************************************************************)
\* Jaccard similarity of the word sets of the two clean_text values
_calculate_text_similarity(story1, story2) ==
  LET text1 == Get(story1, "clean_text", "")
      text2 == Get(story2, "clean_text", "")
      words1 == SeqToSet(Split(text1))
      words2 == SeqToSet(Split(text2))
  IN  IF text1 = "" \/ text2 = "" THEN <<0, 1>>
      ELSE IF words1 = {} \/ words2 = {} THEN <<0, 1>>
      ELSE <<Cardinality(words1 \cap words2), Cardinality(words1 \cup words2)>>

\* the length of the common run of a[i:] and b[j:] inside a[:ahi], b[:bhi] (0-based)
RECURSIVE RunLen(_, _, _, _, _, _)
RunLen(a, b, i, j, ahi, bhi) ==
  IF i < ahi /\ j < bhi /\ CharAt(a, i + 1) = CharAt(b, j + 1)
    THEN 1 + RunLen(a, b, i + 1, j + 1, ahi, bhi)
    ELSE 0

\* SequenceMatcher.find_longest_match without junk: the longest block, the one
\* starting earliest in a, and of those the one starting earliest in b
find_longest_match(a, b, alo, ahi, blo, bhi) ==
  LET pairs == (alo..(ahi - 1)) \X (blo..(bhi - 1))
      len(p) == RunLen(a, b, p[1], p[2], ahi, bhi)
      best == CHOOSE p \in pairs :
                \A q \in pairs :
                  \/ len(q) < len(p)
                  \/ len(q) = len(p) /\ (p[1] < q[1] \/ (p[1] = q[1] /\ p[2] <= q[2]))
  IN  <<best[1], best[2], len(best)>>

\* the total size of SequenceMatcher.get_matching_blocks()
RECURSIVE MatchedChars(_, _, _, _, _, _)
MatchedChars(a, b, alo, ahi, blo, bhi) ==
  IF alo >= ahi \/ blo >= bhi THEN 0
  ELSE LET m == find_longest_match(a, b, alo, ahi, blo, bhi)
       IN  IF m[3] = 0 THEN 0
           ELSE m[3] + MatchedChars(a, b, alo, m[1], blo, m[2])
                     + MatchedChars(a, b, m[1] + m[3], ahi, m[2] + m[3], bhi)

\* SequenceMatcher(None, a, b).ratio() = 2.0 * matches / (len(a) + len(b))
SequenceMatcherRatio(a, b) ==
  IF Len(a) + Len(b) = 0 THEN <<1, 1>>
  ELSE <<2 * MatchedChars(a, b, 0, Len(a), 0, Len(b)), Len(a) + Len(b)>>

_calculate_capability_similarity(story1, story2) ==
  LET cap1 == Get(story1, "clean_capability", "")
      cap2 == Get(story2, "clean_capability", "")
  IN  IF cap1 = "" \/ cap2 = "" THEN <<0, 1>> ELSE SequenceMatcherRatio(cap1, cap2)

\* the words of scikit-learn's 'english' stop word list that are at least two
\* characters long and can occur in the texts of this model
EnglishStopWords ==
  {"about", "after", "all", "also", "am", "an", "and", "any", "are", "as", "at", "be",
   "because", "been", "before", "but", "by", "can", "could", "do", "each", "every", "for",
   "from", "get", "has", "have", "he", "her", "his", "how", "if", "in", "into", "is", "it",
   "its", "may", "me", "more", "most", "must", "my", "no", "not", "of", "on", "only", "or",
   "our", "out", "she", "should", "so", "some", "such", "system", "than", "that", "the",
   "their", "them", "then", "there", "these", "they", "this", "those", "to", "up", "us",
   "was", "we", "were", "what", "when", "where", "which", "who", "why", "will", "with",
   "would", "you", "your"}

\* [w for w in words if len(w) >= 2]: token_pattern (?u)\b\w\w+\b on normalised text
RECURSIVE LongWords(_)
LongWords(words) ==
  IF words = <<>> THEN <<>>
  ELSE (IF Len(words[1]) >= 2 THEN <<words[1]>> ELSE <<>>) \o LongWords(Tail(words))

\* the analyzer of TfidfVectorizer(stop_words='english', ngram_range=(1, 2)):
\* the tokens left after the stop words, then every pair of neighbours
Terms(text) ==
  LET tokens == Without(LongWords(Split(text)), EnglishStopWords)
  IN  tokens \o [i \in 1..(Len(tokens) - 1) |-> tokens[i] \o " " \o tokens[i + 1]]

\* the term frequency of term in a document's terms
Count(terms, term) == Cardinality({i \in 1..Len(terms) : terms[i] = term})

\* the sum of the values of a function with a finite domain
RECURSIVE SumFn(_)
SumFn(f) ==
  IF DOMAIN f = {} THEN 0
  ELSE LET t == CHOOSE u \in DOMAIN f : TRUE
       IN  f[t] + SumFn([u \in DOMAIN f \ {t} |-> f[u]])

\* floor(sqrt(n)) by bisection
RECURSIVE ISqrtBetween(_, _, _)
ISqrtBetween(n, lo, hi) ==
  IF lo >= hi THEN lo
  ELSE LET mid == (lo + hi + 1) \div 2
       IN  IF mid * mid <= n THEN ISqrtBetween(n, mid, hi) ELSE ISqrtBetween(n, lo, mid - 1)

ISqrt(n) == ISqrtBetween(n, 0, 46340)

\* cosine of the two TF-IDF rows of a two-document corpus, in thousandths.
\* A term of both documents has idf 1, a term of one document idf 1 + ln(3/2),
\* whose square 1.9753 is taken as 79/40; squared norms are in fortieths.
TfidfCosineMilli(terms1, terms2) ==
  LET voc1 == SeqToSet(terms1)
      voc2 == SeqToSet(terms2)
      both == voc1 \cap voc2
      dot == SumFn([t \in both |-> Count(terms1, t) * Count(terms2, t)])
      SumSq(terms, voc) == SumFn([t \in voc |-> Count(terms, t) * Count(terms, t)])
      norm1 == 40 * SumSq(terms1, both) + 79 * SumSq(terms1, voc1 \ voc2)
      norm2 == 40 * SumSq(terms2, both) + 79 * SumSq(terms2, voc2 \ voc1)
  IN  IF dot = 0 THEN 0
      ELSE LET cos == (400000 * dot) \div ISqrt(100 * norm1 * norm2)
           IN  IF cos > 1000 THEN 1000 ELSE cos

\* in thousandths; 0 when a text is blank and when fit_transform raises on an
\* empty vocabulary (the except branch)
_calculate_semantic_similarity(story1, story2) ==
  LET text1 == Get(story1, "clean_text", "") \o " " \o Get(story1, "clean_capability", "")
      text2 == Get(story2, "clean_text", "") \o " " \o Get(story2, "clean_capability", "")
  IN  IF Strip(text1) = "" \/ Strip(text2) = "" THEN 0
      ELSE IF Terms(text1) = <<>> /\ Terms(text2) = <<>> THEN 0
      ELSE TfidfCosineMilli(Terms(text1), Terms(text2))

\* variant of SimilarAt: the semantic similarity is left out of the sum
SimilarAtTextAndCapability(story1, story2, threshold) ==
  LET text_similarity == _calculate_text_similarity(story1, story2)
      capability_similarity == _calculate_capability_similarity(story1, story2)
      den == text_similarity[2] * capability_similarity[2]
  IN  2000 * (text_similarity[1] * capability_similarity[2]
              + capability_similarity[1] * text_similarity[2])
      >= 5 * threshold * den

\* 0.4 * text + 0.4 * capability + 0.2 * semantic >= threshold, every term
\* multiplied by 5000 * (the two denominators); threshold in thousandths
SimilarAt(story1, story2, threshold) ==
  LET text_similarity == _calculate_text_similarity(story1, story2)
      capability_similarity == _calculate_capability_similarity(story1, story2)
      semantic_similarity == _calculate_semantic_similarity(story1, story2)
      den == text_similarity[2] * capability_similarity[2]
  IN  2000 * (text_similarity[1] * capability_similarity[2]
              + capability_similarity[1] * text_similarity[2])
        + semantic_similarity * den
      >= 5 * threshold * den

(***************************************************************************)
(* Scores                                                                  *)
(***************************************************************************)
\* 1.0 as a score; 60 makes the mean of up to six scores given in thousandths exact
ScoreOne == 1000 * 60

\* the default of story.get('Match Score', 0.5)
HalfScore == ScoreOne \div 2

Tenth == ScoreOne \div 10

(***************************************************************************)
(* ExtractionEngine (src/worker/processors/extraction_engine.py)           *)
(***************************************************************************)
UpperTable == [c \in CharsOf(LowerLetters) |->
                 CharAt(UpperLetters, CHOOSE i \in 1..26 : CharAt(LowerLetters, i) = c)]

\* str.upper()
RECURSIVE Upper(_)
Upper(s) ==
  IF s = "" THEN ""
  ELSE (IF Head(s) \in DOMAIN UpperTable THEN UpperTable[Head(s)] ELSE Head(s)) \o Upper(Tail(s))

\* text[start:start + count] with start counted from 1
Slice(text, start, count) ==
  SubSeq(text, start, IF start + count - 1 < Len(text) THEN start + count - 1 ELSE Len(text))

\* sorted(list(set(xs))) for strings
RECURSIVE SortedStrings(_)
SortedStrings(set) ==
  IF set = {} THEN <<>>
  ELSE LET least == CHOOSE x \in set : \A y \in set \ {x} : StrLess(x, y)
       IN  <<least>> \o SortedStrings(set \ {least})

\* hashlib.md5(s.encode()).hexdigest(), for the strings the documents of the
\* model make the engine hash
Md5Digests ==
  ("0" :> "cfcd208495d565ef66e7dff9f98764da")
  @@ ("1" :> "c4ca4238a0b923820dcc509a6f75849b")
  @@ ("As a User, I need Asset metadata goes missing. so that Improved efficiency and user experienceb.txt0"
        :> "61faa8323da4571906f80574afc7e03f")
  @@ ("As a general contractor, I want to upload files.\n[KEY INDICATOR: WANT]"
        :> "6cfdb6dc55d0a0c762a1e981b6d7802e")
  @@ ("As a general, I need want to upload files.\n[KEY INDICATOR: WANT] so that Improved efficiency and user experienceb.txt0"
        :> "c11609d517b3be86feb2249dac83e19f")
  @@ ("As a manager, I need document approval.\n[KEY INDICATOR: NEED]"
        :> "1061abd733ef7805eafebe79357ad829")
  @@ ("As a manager, I need need document approval.\n[KEY INDICATOR: NEED] so that Improved efficiency and user experiencea.txt0"
        :> "77eb95810f6a2acd721cedfd82ee67eb")
  @@ ("As a manager, I need need document approval.\n[KEY INDICATOR: NEED] so that Improved efficiency and user experienceb.txt0"
        :> "2bd82965e053cc9bf8033dcf2bc939fc")
  @@ ("Asset metadata goes missing." :> "5d3e535ddcc7a6b995a9ddfd86272194")
  @@ ("As a general contractor, I want to upload files."
        :> "d120c30414d2431043886ebb08f473da")
  @@ ("As a general, I need want to upload files. so that Improved efficiency and user experienceb.txt0"
        :> "61db58e49092949630983dd1c6d71fe4")
  @@ ("As a manager, I need document approval." :> "66cc0a6050606765d6616f9a12bd2449")
  @@ ("As a manager, I need need document approval. so that Improved efficiency and user experiencea.txt0"
        :> "87fc2d74ac259b5f0866683a412ae794")
  @@ ("As a manager, I need need document approval. so that Improved efficiency and user experienceb.txt0"
        :> "3c5185fee50db5e70d703ad3208b495a")
  @@ ("Asset metadata goes missing. " :> "2a0423f318b52579a8f23a7f9e6ca1b5")

md5_hexdigest(s) == Md5Digests[s]

\* variant of _generate_sequential_id: the counter is not read
_generate_sequential_id_fixed(story_counter) == "US-" \o ToString(1)

_generate_sequential_id(story_counter) == "US-" \o ToString(story_counter)

_generate_story_hash(story) ==
  md5_hexdigest(Get(story, "User Story", "") \o Get(story, "Source", "")
                \o ToString(Get(story, "paragraph_index", 0)))

workflow_keywords ==
  {"workflow", "process", "approval", "review", "sign-off", "routing", "escalation",
   "notification", "automation", "business rules", "decision points", "status", "state",
   "escalate", "route", "approve", "reject", "notify"}

dam_keywords ==
  {"digital asset", "asset management", "metadata", "tagging", "version control",
   "access control", "permissions", "search", "categorization", "workflow integration",
   "asset", "file", "upload", "download", "share", "collaborate"}

_is_relevant_content(text) ==
  LET text_lower == Lower(text)
  IN  \E keyword \in workflow_keywords \cup dam_keywords : Contains(text_lower, keyword)

key_indicators ==
  <<"need", "want", "should", "must", "require", "problem", "issue", "difficulty">>

\* the loop over key_indicators: each one found in the text so far appends a marker
RECURSIVE MarkIndicators(_, _)
MarkIndicators(text, indicators) ==
  IF indicators = <<>> THEN text
  ELSE MarkIndicators(IF Contains(Lower(text), indicators[1])
                        THEN text \o "\n[KEY INDICATOR: " \o Upper(indicators[1]) \o "]"
                        ELSE text,
                      Tail(indicators))

_preprocess_text_for_analysis(text) ==
  LET stripped == Strip(text)
      marked == IF Contains(Lower(stripped), "interview") \/ Contains(stripped, ":")
                  THEN "INTERVIEW CONTENT: " \o stripped
                  ELSE stripped
  IN  MarkIndicators(marked, key_indicators)

\* the longest run of word characters of text from position i on
RECURSIVE WordAt(_, _)
WordAt(text, i) ==
  IF i <= Len(text) /\ CharAt(text, i) \in WordChars
    THEN CharAt(text, i) \o WordAt(text, i + 1)
    ELSE ""

\* re.search(r'as a (\w+)', text_lower): group(1) of the first match, "" without one
RoleMatch(text_lower) ==
  LET at == {i \in Occurrences(text_lower, "as a ") : WordAt(text_lower, i + 5) /= ""}
  IN  IF at = {} THEN ""
      ELSE WordAt(text_lower, (CHOOSE i \in at : \A j \in at : i <= j) + 5)

capability_keywords == <<"need", "want", "should", "must", "require">>

\* the loop over capability_keywords: the text from the first keyword found on
RECURSIVE CapabilityFrom(_, _, _)
CapabilityFrom(text, text_lower, keywords) ==
  IF keywords = <<>> THEN ""
  ELSE IF Contains(text_lower, keywords[1])
    THEN Strip(Slice(text, Find(text_lower, keywords[1]), 100))
  ELSE CapabilityFrom(text, text_lower, Tail(keywords))

\* value or fallback
OrElse(value, fallback) == IF value /= "" THEN value ELSE fallback

\* the entries of the candidate that _extract_with_patterns reads off the text
FieldsOf(text, text_lower) ==
  ("role" :> OrElse(RoleMatch(text_lower), "User"))
  @@ ("capability" :> OrElse(CapabilityFrom(text, text_lower, capability_keywords),
                             Strip(Slice(text, 1, 100))))
  @@ ("benefit" :> "Improved efficiency and user experience")
  @@ ("category" :> IF \E keyword \in {"workflow", "process", "approval"} :
                         Contains(text_lower, keyword) THEN "workflow"
                    ELSE IF \E keyword \in {"asset", "digital", "metadata"} :
                         Contains(text_lower, keyword) THEN "dam"
                    ELSE "general")
  @@ ("priority" :> "medium")
  @@ ("source_text" :> Slice(text, 1, 200))
  @@ ("requirements" :> <<>>)
  @@ ("acceptance_criteria" :> <<>>)
  @@ ("extraction_method" :> "pattern")
  @@ ("confidence_score" :> HalfScore)
  @@ ("content_hash" :> md5_hexdigest(text))

PatternFields(text) == FieldsOf(text, Lower(text))

\* Documents: the paragraphs cover a workflow story with a role, a story whose
\* role equals its category, a DAM remark with a trailing blank and no keyword,
\* and a paragraph without relevant content.
ApprovalParagraph == "As a manager, I need document approval."
UploadParagraph == "As a general contractor, I want to upload files."
MetadataParagraph == "Asset metadata goes missing. "
WeatherParagraph == "The weather was nice."

ParagraphPool == {ApprovalParagraph, UploadParagraph, MetadataParagraph, WeatherParagraph}

Document(filename, paragraphs) == ("filename" :> filename) @@ ("paragraphs" :> paragraphs)

DocumentPool ==
  { Document("a.txt", <<ApprovalParagraph, WeatherParagraph>>),
    Document("b.txt", <<UploadParagraph, ApprovalParagraph>>),
    Document("b.txt", <<MetadataParagraph>>),
    ("filename" :> "c.txt") }

MaxDocuments == 2

DocumentLists == UNION {[1..n -> DocumentPool] : n \in 0..MaxDocuments}

NoConstruct == <<>>
DefaultConstruct == ("name" :> "Default") @@ ("defaults" :> ("Team" :> "Delivery"))
Constructs == {NoConstruct, DefaultConstruct}

\* a construct whose priority_rules hold a null: joining them into the prompt raises
RulesConstruct ==
  ("name" :> "Rules") @@ ("defaults" :> ("Team" :> "Delivery"))
  @@ ("priority_rules" :> <<NoneText>>)

Providers == {"gemini", "openai", "patterns"}

\* what the LLM call of one paragraph does: it raises, it returns nothing usable
\* (an empty text, or a text without a JSON object holding role, capability and
\* benefit), or it returns such a JSON object
Replies == {"raises", "unusable", "json"}

\* the text work of the engine, done once per paragraph of the pool
RECURSIVE TabParagraphs(_)
TabParagraphs(set) ==
  IF set = {} THEN <<>>
  ELSE LET text == CHOOSE x \in set : TRUE
       IN  (text :> [relevant |-> _is_relevant_content(text),
                     processed_text |-> _preprocess_text_for_analysis(text)])
           @@ TabParagraphs(set \ {text})

AnalysedPool == TabParagraphs(ParagraphPool)

\* the texts the pattern extraction is handed: the preprocessed relevant paragraphs
RECURSIVE TabPatterns(_)
TabPatterns(set) ==
  IF set = {} THEN <<>>
  ELSE LET text == CHOOSE x \in set : TRUE
       IN  (text :> PatternFields(text)) @@ TabPatterns(set \ {text})

PatternPool ==
  TabPatterns({AnalysedPool[text].processed_text :
                 text \in {x \in ParagraphPool : AnalysedPool[x].relevant}})

\* the texts the pattern extraction is handed after an exception: the relevant
\* paragraphs as they stand in the document
FallbackPool == TabPatterns({text \in ParagraphPool : AnalysedPool[text].relevant})

_extract_with_patterns(text, doc, paragraph_index, story_counter) ==
  ("user_story_id" :> _generate_sequential_id(story_counter))
  @@ ("source_file" :> doc["filename"])
  @@ ("paragraph_index" :> paragraph_index)
  @@ (IF text \in DOMAIN PatternPool THEN PatternPool[text] ELSE FallbackPool[text])

\* what an extraction step yields: the candidates, and the counter after it
Yield(candidates, story_counter) == [stories |-> candidates, story_counter |-> story_counter]

\* stories.append(story) after a step, with the counter the step left
Absorb(run, step) == Yield(run.stories \o step.stories, step.story_counter)

\* the engine with the counter a run has reached
Counting(self, run) == [self EXCEPT !.story_counter = run.story_counter]

\* _parse_ai_response on a reply: a JSON object with the three keys mints an ID
\* for the first entry of the candidate, then the last entry reads the name
\* text, which the function does not have: the NameError is caught and the
\* result is None
_parse_ai_response(reply, story_counter) ==
  IF reply = "json" THEN Yield(<<>>, story_counter + 1) ELSE Yield(<<>>, story_counter)

\* variant of _extract_with_gemini: a call that raises ends in None
_extract_with_gemini_no_fallback(self, text, doc, paragraph_index, reply) ==
  IF ~self.gemini_model
    THEN Yield(<<_extract_with_patterns(text, doc, paragraph_index, self.story_counter)>>,
               self.story_counter + 1)
  ELSE IF reply = "raises" THEN Yield(<<>>, self.story_counter)
  ELSE _parse_ai_response(reply, self.story_counter)

_extract_with_gemini(self, text, doc, paragraph_index, reply) ==
  IF ~self.gemini_model \/ reply = "raises"
    THEN Yield(<<_extract_with_patterns(text, doc, paragraph_index, self.story_counter)>>,
               self.story_counter + 1)
    ELSE _parse_ai_response(reply, self.story_counter)

\* without a client the call itself raises; every exception ends in None
_extract_with_openai(self, text, doc, paragraph_index, reply) ==
  IF ~self.openai_client \/ reply = "raises"
    THEN Yield(<<>>, self.story_counter)
    ELSE _parse_ai_response(reply, self.story_counter)

\* the provider dispatch of _extract_story_from_text on the preprocessed text
ExtractByProvider(self, processed_text, doc, paragraph_index, reply) ==
  IF self.llm_provider = "gemini"
    THEN _extract_with_gemini(self, processed_text, doc, paragraph_index, reply)
  ELSE IF self.llm_provider = "openai"
    THEN _extract_with_openai(self, processed_text, doc, paragraph_index, reply)
  ELSE Yield(<<_extract_with_patterns(processed_text, doc, paragraph_index,
                                      self.story_counter)>>,
             self.story_counter + 1)

\* _get_construct_guidance raises: '; '.join(priority_rules) over a null
PromptRaises(self) ==
  /\ self.construct /= NoConstruct
  /\ NoneText \in SeqToSet(Get(self.construct, "priority_rules", <<>>))

\* the provider function builds the prompt ahead of its try block, so an
\* exception there leaves the function
ProviderRaises(self) ==
  /\ PromptRaises(self)
  /\ \/ self.llm_provider = "gemini" /\ self.gemini_model
     \/ self.llm_provider = "openai"

\* an exception that leaves the provider function is answered by the pattern
\* extraction on the text as it was passed in
_extract_story_from_text(self, text, doc, paragraph_index, reply) ==
  IF ProviderRaises(self)
    THEN Yield(<<_extract_with_patterns(text, doc, paragraph_index, self.story_counter)>>,
               self.story_counter + 1)
    ELSE ExtractByProvider(self, AnalysedPool[text].processed_text, doc, paragraph_index,
                           reply)

\* the paragraph loop of _extract_from_document from paragraph i on; replies[i]
\* is what the LLM does when asked about paragraph i, run the candidates and the
\* counter so far
RECURSIVE ExtractParagraphs(_, _, _, _, _)
ExtractParagraphs(self, paragraphs, doc, replies, run) ==
  IF paragraphs = <<>> THEN run
  ELSE LET i == Len(doc["paragraphs"]) - Len(paragraphs) + 1
       IN  ExtractParagraphs(self, Tail(paragraphs), doc, replies,
             IF ~AnalysedPool[paragraphs[1]].relevant THEN run
             ELSE Absorb(run, _extract_story_from_text(Counting(self, run), paragraphs[1],
                                                       doc, i - 1, replies[i])))

\* the candidates leave the loop in ascending paragraph_index, so the sort that
\* follows it keeps them as they are
_extract_from_document(self, doc, replies) ==
  ExtractParagraphs(self, Get(doc, "paragraphs", <<>>), doc, replies,
                    Yield(<<>>, self.story_counter))

\* sorted(processed_documents, key=filename): a stable insertion
RECURSIVE InsertByFilename(_, _)
InsertByFilename(sorted, doc) ==
  IF sorted = <<>> THEN <<doc>>
  ELSE IF StrLess(doc["filename"], sorted[1]["filename"]) THEN <<doc>> \o sorted
  ELSE <<sorted[1]>> \o InsertByFilename(Tail(sorted), doc)

RECURSIVE SortByFilename(_, _)
SortByFilename(sorted, rest) ==
  IF rest = <<>> THEN sorted ELSE SortByFilename(InsertByFilename(sorted, rest[1]), Tail(rest))

_generate_tags(story) ==
  LET capability == Lower(Get(story, "capability", ""))
      Tag(word, tag) == IF Contains(capability, word) THEN {tag} ELSE {}
  IN  SortedStrings({Get(story, "category", "general"), Get(story, "priority", "medium")}
                    \cup (IF Get(story, "role", "") /= "" THEN {Lower(story["role"])} ELSE {})
                    \cup Tag("approval", "approval") \cup Tag("notification", "notification")
                    \cup Tag("routing", "routing") \cup Tag("asset", "asset-management"))

_structure_story(story, construct) ==
  LET defaults == Get(construct, "defaults", <<>>)
  IN  ("User Story ID" :> Get(story, "user_story_id", ""))
      @@ ("User Story" :> "As a " \o Get(story, "role", "User") \o ", I need "
                          \o Get(story, "capability", "") \o " so that "
                          \o Get(story, "benefit", ""))
      @@ ("Team" :> Get(defaults, "Team", "Product"))
      @@ ("Category" :> Get(story, "category", Get(defaults, "Category", "Workflow")))
      @@ ("Lifecycle Phase" :> Get(defaults, "Lifecycle Phase", "Execution"))
      @@ ("Capability" :> Get(story, "capability", ""))
      @@ ("Priority" :> Get(story, "priority", Get(defaults, "Priority", "Medium")))
      @@ ("Source" :> Get(story, "source_file", ""))
      @@ ("Snippet" :> Slice(Get(story, "source_text", ""), 1, 100) \o "...")
      @@ ("Match Score" :> Get(story, "confidence_score", 0))
      @@ ("Tags" :> _generate_tags(story))
      @@ ("Content Hash" :> Get(story, "content_hash", ""))
      @@ ("Extraction Method" :> Get(story, "extraction_method", "unknown"))

\* an empty or missing construct hands the candidates back as they are
RECURSIVE _apply_construct_template(_, _)
_apply_construct_template(candidates, construct) ==
  IF construct = NoConstruct \/ candidates = <<>> THEN candidates
  ELSE <<_structure_story(candidates[1], construct)>>
       \o _apply_construct_template(Tail(candidates), construct)

\* list.sort(key=_generate_story_hash): a stable insertion
RECURSIVE InsertByHash(_, _)
InsertByHash(sorted, story) ==
  IF sorted = <<>> THEN <<story>>
  ELSE IF StrLess(_generate_story_hash(story), _generate_story_hash(sorted[1]))
    THEN <<story>> \o sorted
  ELSE <<sorted[1]>> \o InsertByHash(Tail(sorted), story)

RECURSIVE SortByHash(_, _)
SortByHash(sorted, rest) ==
  IF rest = <<>> THEN sorted ELSE SortByHash(InsertByHash(sorted, rest[1]), Tail(rest))

\* the document loop of extract_stories from sorted document d on; replies[d][i]
\* is what the LLM does for paragraph i of sorted document d
RECURSIVE ExtractDocuments(_, _, _, _, _)
ExtractDocuments(self, sorted_docs, d, replies, run) ==
  IF d > Len(sorted_docs) THEN run
  ELSE ExtractDocuments(self, sorted_docs, d + 1, replies,
         Absorb(run, _extract_from_document(Counting(self, run), sorted_docs[d], replies[d])))

\* the steps of extract_stories after the document loop
Structured(self, run) ==
  Yield(SortByHash(<<>>, _apply_construct_template(run.stories, self.construct)),
        run.story_counter)

\* extract_stories(processed_documents): its return value and the counter it leaves
extract_stories(self, processed_documents, replies) ==
  Structured(self, ExtractDocuments(self, SortByFilename(<<>>, processed_documents), 1,
                                    replies, Yield(<<>>, self.story_counter)))

\* ExtractionEngine(construct, llm_provider), with or without the provider's API
\* key in the environment
ExtractionEngine(construct, llm_provider, api_key) ==
  [construct |-> construct,
   llm_provider |-> llm_provider,
   story_counter |-> 1,
   gemini_model |-> llm_provider = "gemini" /\ api_key,
   openai_client |-> llm_provider = "openai" /\ api_key]

Engines ==
  {ExtractionEngine(c, p, k) : c \in Constructs, p \in Providers, k \in BOOLEAN}

\* engines whose construct breaks the prompt
RulesEngines ==
  {ExtractionEngine(RulesConstruct, p, k) : p \in Providers, k \in BOOLEAN}

\* the engine asks the LLM only with a model or client at hand, and a prompt
AsksLLM(self) ==
  /\ ~PromptRaises(self)
  /\ \/ self.llm_provider = "gemini" /\ self.gemini_model
     \/ self.llm_provider = "openai" /\ self.openai_client

\* the paragraphs of doc the engine extracts from
RelevantIndices(doc) ==
  LET paragraphs == Get(doc, "paragraphs", <<>>)
  IN  {i \in 1..Len(paragraphs) : AnalysedPool[paragraphs[i]].relevant}

\* every way the LLM can answer for the relevant paragraphs of the sorted
\* documents from d on; an engine that never asks gets no answer
RECURSIVE DocumentReplies(_, _, _)
DocumentReplies(self, sorted_docs, d) ==
  IF d > Len(sorted_docs) THEN {<<>>}
  ELSE {<<first>> \o rest :
          first \in [RelevantIndices(sorted_docs[d]) ->
                       IF AsksLLM(self) THEN Replies ELSE {"unusable"}],
          rest \in DocumentReplies(self, sorted_docs, d + 1)}

ReplyChoices(self, processed_documents) ==
  DocumentReplies(self, SortByFilename(<<>>, processed_documents), 1)

(***************************************************************************)
(* The inputs of the model                                                 *)
(***************************************************************************)
MaxStories == 3

ComplianceText == "As a manager, I need document approval so that compliance is maintained."

AuditText == "As a manager, I need document approval so that audits pass."

UploadText == "As a user, I need asset upload so that files are shared."

Story(id, text, capability, source, score, tags, snippet) ==
  ("User Story ID" :> id) @@ ("User Story" :> text) @@ ("Capability" :> capability)
  @@ ("Category" :> "workflow") @@ ("Priority" :> "medium") @@ ("Source" :> source)
  @@ ("Match Score" :> score) @@ ("Tags" :> tags) @@ ("Snippet" :> snippet)

\* Structured stories as the structurer emits them (Tags sorted and duplicate
\* free, Match Score in [0, 1]); US-2 is a bare record without Match Score, Tags,
\* Category and Priority; US-2 and US-4 carry requirements; US-3 and US-4 carry
\* the other keys of a structured story, and no two values alike.
StoryPool ==
  { Story("US-1", ComplianceText, "", "a.txt", ScoreOne, <<"manager", "workflow">>, ""),
    ("User Story ID" :> "US-2") @@ ("User Story" :> ComplianceText) @@ ("Capability" :> "")
      @@ ("Source" :> "b.txt") @@ ("requirements" :> <<"audit trail">>),
    ("Team" :> "Product") @@ ("Lifecycle Phase" :> "Execution")
      @@ ("Content Hash" :> "55dcb356e1ae313e46aed282c03876ad")
      @@ ("Extraction Method" :> "openai")
      @@ Story("US-3", ComplianceText, "document approval", "c.txt", 8 * Tenth,
               <<"manager", "workflow">>, "We need approvals. Audits matter."),
    ("requirements" :> <<"workflow", "audit trail">>)
      @@ ("acceptance_criteria" :> <<"audit trail">>)
      @@ ("Team" :> "Compliance") @@ ("Lifecycle Phase" :> "Planning")
      @@ ("Category" :> "compliance") @@ ("Priority" :> "high")
      @@ ("Content Hash" :> "fad5dc22cf3bdb2f98147b06f79d83f8")
      @@ ("Extraction Method" :> "pattern")
      @@ Story("US-4", AuditText, "document approval", "", 0, <<"manager">>,
               "Audits matter. We lose track."),
    Story("US-5", UploadText, "asset upload", "e.txt", 8 * Tenth,
          <<"manager", "workflow">>, "Files get lost.") }

Inputs == UNION {[1..n -> StoryPool] : n \in 0..MaxStories}

\* the lists _find_duplicates is tried on by itself: long enough for two groups
MaxGrouped == 4

GroupInputs == UNION {[1..n -> StoryPool] : n \in 0..MaxGrouped}

\* Records with null fields: US-6 without a User Story, US-7 without a Match
\* Score, US-8 without Tags, Snippet and Source; US-7 and US-8 are duplicates of
\* US-3 and of each other
NullablePool ==
  { Story("US-6", NoneAt("User Story"), "document approval", "f.txt", 8 * Tenth,
          <<"manager", "workflow">>, ""),
    Story("US-7", AuditText, "document approval", "g.txt", NoneAt("Match Score"),
          <<"manager", "workflow">>, "Audits matter."),
    Story("US-8", AuditText, "document approval", NoneAt("Source"), 8 * Tenth,
          NoneAt("Tags"), NoneAt("Snippet")),
    ("User Story ID" :> "US-9") @@ ("User Story" :> AuditText) @@ ("Category" :> "workflow"),
    ("User Story ID" :> "US-10") @@ ("User Story" :> "") @@ ("Capability" :> "") }

MaxNullable == 2

NullableInputs ==
  UNION {[1..n -> NullablePool
                  \cup {story \in StoryPool : story["User Story ID"] \in {"US-3", "US-4"}}] :
           n \in 0..MaxNullable}

\* the strings that are hashed into sets while merging
HashedStrings == {"audit trail", "manager", "workflow"}

\* a process's string hashing (PYTHONHASHSEED is random for each process): the
\* order in which a set of these strings is iterated
HashSeeds ==
  {seed \in [1..Cardinality(HashedStrings) -> HashedStrings] :
     \A i, j \in DOMAIN seed : i /= j => seed[i] /= seed[j]}

\* the strings _generate_tags can emit, ascending and descending: two of the
\* orders a process can iterate a set of them in
TagSeeds ==
  { <<"approval", "asset-management", "dam", "general", "manager", "medium", "user", "workflow">>,
    <<"workflow", "user", "medium", "manager", "general", "dam", "asset-management", "approval">> }

\* the similarity_threshold values the engine is constructed with (thousandths)
DefaultThreshold == 700

Thresholds == {DefaultThreshold, 500}

NoResult == [returned |-> FALSE, value |-> <<>>]

\* CleanStory over the pool, and the pairs of cleaned stories that are similar
\* at each threshold, tabulated once: both depend on their arguments alone
RECURSIVE TabClean(_)
TabClean(set) ==
  IF set = {} THEN <<>>
  ELSE LET story == CHOOSE x \in set : TRUE
       IN  (story :> CleanStory(story)) @@ TabClean(set \ {story})

CleanedPool == TabClean(StoryPool)

RECURSIVE TabSimilar(_)
TabSimilar(set) ==
  IF set = {} THEN {}
  ELSE LET p == CHOOSE x \in set : TRUE
       IN  (IF SimilarAt(p[1], p[2], p[3]) THEN {p} ELSE {}) \cup TabSimilar(set \ {p})

\* the two entries of a cleaned story that the similarity reads
CleanKey(story) ==
  ("clean_text" :> Get(story, "clean_text", ""))
  @@ ("clean_capability" :> Get(story, "clean_capability", ""))

\* IDs, sources and scores do not enter the similarity: the table is kept by CleanKey
PoolKeys ==
  {CleanKey(CleanedPool[s]) : s \in StoryPool} \cup {CleanKey(CleanStory(s)) : s \in NullablePool}

SimilarPool == TabSimilar(PoolKeys \X PoolKeys \X Thresholds)

\* the same table for the stories extract_stories hands on: raw candidates, and
\* candidates structured by a construct
ExtractedKeys ==
  {CleanKey(CleanStory(PatternPool[text])) : text \in DOMAIN PatternPool}
  \cup {CleanKey(CleanStory(_structure_story(PatternPool[text], construct))) :
          text \in DOMAIN PatternPool, construct \in Constructs \ {NoConstruct}}

ExtractedSimilarPool == TabSimilar(ExtractedKeys \X ExtractedKeys \X Thresholds)

_clean_stories(stories) ==
  [i \in 1..Len(stories) |->
     IF stories[i] \in DOMAIN CleanedPool THEN CleanedPool[stories[i]]
                                          ELSE CleanStory(stories[i])]

_are_stories_similar(story1, story2, threshold) ==
  <<CleanKey(story1), CleanKey(story2), threshold>> \in SimilarPool \cup ExtractedSimilarPool

(***************************************************************************)
(* Duplicate groups.  Positions are 1-based here, 0-based in the code.     *)
(***************************************************************************)
\* variant of ScanOthers: a story that a group already holds is compared again
RECURSIVE ScanOthersRescans(_, _, _, _, _, _)
ScanOthersRescans(stories, threshold, i, j, current_group, processed) ==
  IF j > Len(stories) THEN <<current_group, processed>>
  ELSE IF _are_stories_similar(stories[i], stories[j], threshold)
    THEN ScanOthersRescans(stories, threshold, i, j + 1, Append(current_group, j),
                           processed \cup {j})
  ELSE ScanOthersRescans(stories, threshold, i, j + 1, current_group, processed)

\* variant of ScanOthers: a story is compared with the member the group took last
RECURSIVE ScanOthersChaining(_, _, _, _, _, _)
ScanOthersChaining(stories, threshold, i, j, current_group, processed) ==
  IF j > Len(stories) THEN <<current_group, processed>>
  ELSE IF j \in processed
    THEN ScanOthersChaining(stories, threshold, i, j + 1, current_group, processed)
  ELSE IF _are_stories_similar(stories[current_group[Len(current_group)]], stories[j],
                               threshold)
    THEN ScanOthersChaining(stories, threshold, i, j + 1, Append(current_group, j),
                            processed \cup {j})
  ELSE ScanOthersChaining(stories, threshold, i, j + 1, current_group, processed)

\* the inner loop of _find_duplicates: <<current_group, processed>> after j..n
RECURSIVE ScanOthers(_, _, _, _, _, _)
ScanOthers(stories, threshold, i, j, current_group, processed) ==
  IF j > Len(stories) THEN <<current_group, processed>>
  ELSE IF j \in processed
    THEN ScanOthers(stories, threshold, i, j + 1, current_group, processed)
  ELSE IF _are_stories_similar(stories[i], stories[j], threshold)
    THEN ScanOthers(stories, threshold, i, j + 1, Append(current_group, j), processed \cup {j})
  ELSE ScanOthers(stories, threshold, i, j + 1, current_group, processed)

\* variant of FindFrom: a group of one is kept
RECURSIVE FindFromKeepsSingletons(_, _, _, _, _)
FindFromKeepsSingletons(stories, threshold, i, duplicate_groups, processed) ==
  IF i > Len(stories) THEN duplicate_groups
  ELSE IF i \in processed
    THEN FindFromKeepsSingletons(stories, threshold, i + 1, duplicate_groups, processed)
  ELSE LET scan == ScanOthers(stories, threshold, i, i + 1, <<i>>, processed \cup {i})
       IN  FindFromKeepsSingletons(stories, threshold, i + 1,
                                   Append(duplicate_groups, scan[1]), scan[2])

\* the outer loop of _find_duplicates from position i on
RECURSIVE FindFrom(_, _, _, _, _)
FindFrom(stories, threshold, i, duplicate_groups, processed) ==
  IF i > Len(stories) THEN duplicate_groups
  ELSE IF i \in processed THEN FindFrom(stories, threshold, i + 1, duplicate_groups, processed)
  ELSE LET scan == ScanOthers(stories, threshold, i, i + 1, <<i>>, processed \cup {i})
       IN  FindFrom(stories, threshold, i + 1,
                    IF Len(scan[1]) > 1 THEN Append(duplicate_groups, scan[1])
                                        ELSE duplicate_groups,
                    scan[2])

\* variant of _find_duplicates: the first story is the only pivot
_find_duplicates_first_pivot(stories, threshold) ==
  IF stories = <<>> THEN <<>>
  ELSE LET scan == ScanOthers(stories, threshold, 1, 2, <<1>>, {1})
       IN  IF Len(scan[1]) > 1 THEN <<scan[1]>> ELSE <<>>

_find_duplicates(stories, threshold) == FindFrom(stories, threshold, 1, <<>>, {})

(***************************************************************************)
(* Merging                                                                 *)
(***************************************************************************)
\* [t for t in texts if t and t.strip()]
RECURSIVE NonBlank(_)
NonBlank(texts) ==
  IF texts = <<>> THEN <<>>
  ELSE (IF texts[1] /= NoneText /\ Strip(texts[1]) /= "" THEN <<texts[1]>> ELSE <<>>)
       \o NonBlank(Tail(texts))

\* max(texts, key=len): the first of the longest
Longest(texts) ==
  texts[CHOOSE i \in 1..Len(texts) :
          /\ \A j \in 1..Len(texts) : Len(texts[j]) <= Len(texts[i])
          /\ \A j \in 1..(i - 1) : Len(texts[j]) < Len(texts[i])]

\* variant of AddSentences: a sentence is appended whether it is there or not
RECURSIVE AddSentencesAgain(_, _)
AddSentencesAgain(merged_text, sentences) ==
  IF sentences = <<>> THEN merged_text
  ELSE LET sentence == Strip(sentences[1])
       IN  AddSentencesAgain(IF sentence /= "" THEN merged_text \o ". " \o sentence
                                               ELSE merged_text,
                             Tail(sentences))

\* the loop over the sentences of one text
RECURSIVE AddSentences(_, _)
AddSentences(merged_text, sentences) ==
  IF sentences = <<>> THEN merged_text
  ELSE LET sentence == Strip(sentences[1])
       IN  AddSentences(IF sentence /= "" /\ ~Contains(merged_text, sentence)
                          THEN merged_text \o ". " \o sentence
                          ELSE merged_text,
                        Tail(sentences))

\* the loop over the texts other than the longest
RECURSIVE AddTexts(_, _, _)
AddTexts(merged_text, longest_text, texts) ==
  IF texts = <<>> THEN merged_text
  ELSE AddTexts(IF texts[1] /= longest_text
                  THEN AddSentences(merged_text, SplitOn(texts[1], "."))
                  ELSE merged_text,
                longest_text, Tail(texts))

_merge_text_fields(all_texts) ==
  LET texts == NonBlank(all_texts)
  IN  IF texts = <<>> THEN ""
      ELSE IF Len(texts) = 1 THEN texts[1]
      ELSE AddTexts(Longest(texts), Longest(texts), texts)

\* variant of Extended: the list of the first member alone
ExtendedFirstOnly(story_group, key) == Get(story_group[1], key, <<>>)

\* the values of a list-valued key over a group, concatenated (extend)
RECURSIVE Extended(_, _)
Extended(story_group, key) ==
  IF story_group = <<>> THEN <<>>
  ELSE Get(story_group[1], key, <<>>) \o Extended(Tail(story_group), key)

\* list(set(xs)): each element once, in the iteration order of a set of strings,
\* which is the order of their hashes; seed lists the strings in that order
RECURSIVE Keep(_, _)
Keep(seed, set) ==
  IF seed = <<>> THEN <<>>
  ELSE (IF seed[1] \in set THEN <<seed[1]>> ELSE <<>>) \o Keep(Tail(seed), set)

ListOfSet(xs, seed) == Keep(seed, SeqToSet(xs))

\* variant of Sources: one entry per member, whatever its Source
SourcesOfAll(story_group) ==
  [k \in 1..Len(story_group) |-> Get(story_group[k], "Source", "")]

\* [s.get('Source', '') for s in story_group if s.get('Source')]
RECURSIVE Sources(_)
Sources(story_group) ==
  IF story_group = <<>> THEN <<>>
  ELSE (IF Truthy(story_group[1], "Source") THEN <<story_group[1]["Source"]>> ELSE <<>>)
       \o Sources(Tail(story_group))

\* variant of SumScores: the score of the first member stands for each member
SumScoresOfFirst(story_group) ==
  Len(story_group) * Get(story_group[1], "Match Score", HalfScore)

RECURSIVE SumScores(_)
SumScores(story_group) ==
  IF story_group = <<>> THEN 0
  ELSE Get(story_group[1], "Match Score", HalfScore) + SumScores(Tail(story_group))

TextsOf(story_group, key) == [i \in 1..Len(story_group) |-> Get(story_group[i], key, "")]

\* variant of _merge_story_group: the copy is taken of the last story
_merge_story_group_on_last(story_group, seed) ==
  LET m1 == Put(story_group[Len(story_group)], "User Story",
                _merge_text_fields(TextsOf(story_group, "User Story")))
      m2 == Put(m1, "Capability", _merge_text_fields(TextsOf(story_group, "Capability")))
      m3 == Put(m2, "Snippet", _merge_text_fields(TextsOf(story_group, "Snippet")))
      m4 == Put(m3, "Tags", ListOfSet(Extended(story_group, "Tags"), seed))
      m5 == Put(m4, "requirements", ListOfSet(Extended(story_group, "requirements"), seed))
      m6 == Put(m5, "acceptance_criteria",
                ListOfSet(Extended(story_group, "acceptance_criteria"), seed))
      m7 == Put(m6, "source_files", Sources(story_group))
      m8 == Put(m7, "duplicate_count", Len(story_group))
  IN  Put(m8, "Match Score", SumScores(story_group) \div Len(story_group))

_merge_story_group(story_group, seed) ==
  LET m1 == Put(story_group[1], "User Story", _merge_text_fields(TextsOf(story_group, "User Story")))
      m2 == Put(m1, "Capability", _merge_text_fields(TextsOf(story_group, "Capability")))
      m3 == Put(m2, "Snippet", _merge_text_fields(TextsOf(story_group, "Snippet")))
      m4 == Put(m3, "Tags", ListOfSet(Extended(story_group, "Tags"), seed))
      m5 == Put(m4, "requirements", ListOfSet(Extended(story_group, "requirements"), seed))
      m6 == Put(m5, "acceptance_criteria",
                ListOfSet(Extended(story_group, "acceptance_criteria"), seed))
      m7 == Put(m6, "source_files", Sources(story_group))
      m8 == Put(m7, "duplicate_count", Len(story_group))
  IN  Put(m8, "Match Score", SumScores(story_group) \div Len(story_group))

\* _merge_story_group raises on a group: extend(None) for a list-valued key,
\* sum() over a None score (TypeError)
MergeRaises(story_group) ==
  \E k \in 1..Len(story_group) :
    \/ \E key \in {"Tags", "requirements", "acceptance_criteria"} : IsNull(story_group[k], key)
    \/ IsNull(story_group[k], "Match Score")

\* _merge_duplicates raises: one of its groups does
RaisesInMerge(stories, duplicate_groups) ==
  \E g \in 1..Len(duplicate_groups) :
    MergeRaises([k \in 1..Len(duplicate_groups[g]) |-> stories[duplicate_groups[g][k]]])

\* variant of Flatten: only the first index of each group counts as merged
FlattenPivots(groups) == [g \in 1..Len(groups) |-> groups[g][1]]

\* [i for group in duplicate_groups for i in group]
RECURSIVE Flatten(_)
Flatten(groups) == IF groups = <<>> THEN <<>> ELSE groups[1] \o Flatten(Tail(groups))

\* variant of Unmerged: the merged indices are not skipped
UnmergedKeepsAll(stories, i, merged_indices) == SubSeq(stories, i, Len(stories))

\* [xs[i] for i in range(len(xs)) if i not in skip]
RECURSIVE Unmerged(_, _, _)
Unmerged(stories, i, merged_indices) ==
  IF i > Len(stories) THEN <<>>
  ELSE (IF i \in merged_indices THEN <<>> ELSE <<stories[i]>>)
       \o Unmerged(stories, i + 1, merged_indices)

\* the merged story of every group, in group order, then the stories of no group
_merge_duplicates(stories, duplicate_groups, seed) ==
  [g \in 1..Len(duplicate_groups) |->
     _merge_story_group([k \in 1..Len(duplicate_groups[g]) |-> stories[duplicate_groups[g][k]]],
                        seed)]
  \o Unmerged(stories, 1, SeqToSet(Flatten(duplicate_groups)))

(***************************************************************************)
(* Scoring                                                                 *)
(***************************************************************************)
\* len(re.search(r'so that (.+)', text).group(1)), 0 without a match; the texts
\* of the model have no line breaks, so the group runs to the end of the text
BenefitLen(text) ==
  LET at == Find(text, "so that ")
  IN  IF at = 0 THEN 0 ELSE Len(text) - (at + 7)

_calculate_quality_score(story) ==
  LET user_story == Lower(Get(story, "User Story", ""))
      capability == Get(story, "Capability", "")
      score == 5 * Tenth
               + (IF Contains(user_story, "as a") /\ Contains(user_story, "i need")
                     /\ Contains(user_story, "so that") THEN 2 * Tenth ELSE 0)
               + (IF Len(capability) > 20 THEN Tenth ELSE 0)
               + (IF BenefitLen(user_story) > 10 THEN Tenth ELSE 0)
               + (IF Truthy(story, "Tags") /\ Len(story["Tags"]) > 1 THEN Tenth ELSE 0)
  IN  IF score < ScoreOne THEN score ELSE ScoreOne

required_fields == {"User Story", "Capability", "Category", "Priority"}

optional_fields == {"Snippet", "Tags", "requirements", "acceptance_criteria"}

\* variant of _calculate_completeness_score: the sum is not capped at 1.0
_calculate_completeness_score_uncapped(story) ==
  5 * Tenth
  + Tenth * Cardinality({f \in required_fields : Truthy(story, f)})
  + (Tenth \div 2) * Cardinality({f \in optional_fields : Truthy(story, f)})

_calculate_completeness_score(story) ==
  LET score == 5 * Tenth
               + Tenth * Cardinality({f \in required_fields : Truthy(story, f)})
               + (Tenth \div 2) * Cardinality({f \in optional_fields : Truthy(story, f)})
  IN  IF score < ScoreOne THEN score ELSE ScoreOne

\* round(n / d) to the nearest integer, a tie to the even one
RoundHalfEven(n, d) ==
  LET q == n \div d
      r == n % d
  IN  IF 2 * r < d THEN q
      ELSE IF 2 * r > d THEN q + 1
      ELSE IF q % 2 = 0 THEN q ELSE q + 1

\* variant of FinalScore: the base score enters at full weight
FinalScoreUnweighted(story) ==
  LET base_score == Get(story, "Match Score", HalfScore)
      quality_score == _calculate_quality_score(story)
      completeness_score == _calculate_completeness_score(story)
      final_tenths == 10 * base_score + 3 * quality_score + 2 * completeness_score
  IN  (ScoreOne \div 1000) * RoundHalfEven(final_tenths, 10 * (ScoreOne \div 1000))

\* round(base * 0.5 + quality * 0.3 + completeness * 0.2, 3)
FinalScore(story) ==
  LET base_score == Get(story, "Match Score", HalfScore)
      quality_score == _calculate_quality_score(story)
      completeness_score == _calculate_completeness_score(story)
      final_tenths == 5 * base_score + 3 * quality_score + 2 * completeness_score
  IN  (ScoreOne \div 1000) * RoundHalfEven(final_tenths, 10 * (ScoreOne \div 1000))

\* _calculate_final_scores raises: None.lower() (AttributeError), len(None) and
\* None * 0.5 (TypeError)
RaisesInScoring(stories) ==
  \E p \in 1..Len(stories) :
    \E key \in {"User Story", "Capability", "Match Score"} : IsNull(stories[p], key)

_calculate_final_scores(stories) ==
  [i \in 1..Len(stories) |-> Put(stories[i], "Match Score", FinalScore(stories[i]))]

\* variant of InsertByScore: the sort without reverse=True
RECURSIVE InsertByScoreAscending(_, _)
InsertByScoreAscending(sorted, story) ==
  IF sorted = <<>> THEN <<story>>
  ELSE IF Get(sorted[1], "Match Score", 0) <= Get(story, "Match Score", 0)
    THEN <<sorted[1]>> \o InsertByScoreAscending(Tail(sorted), story)
  ELSE <<story>> \o sorted

\* list.sort(key=Match Score, reverse=True): stable, equal keys keep their order
RECURSIVE InsertByScore(_, _)
InsertByScore(sorted, story) ==
  IF sorted = <<>> THEN <<story>>
  ELSE IF Get(sorted[1], "Match Score", 0) >= Get(story, "Match Score", 0)
    THEN <<sorted[1]>> \o InsertByScore(Tail(sorted), story)
  ELSE <<story>> \o sorted

RECURSIVE SortByScore(_, _)
SortByScore(sorted, rest) ==
  IF rest = <<>> THEN sorted ELSE SortByScore(InsertByScore(sorted, rest[1]), Tail(rest))

(***************************************************************************)
(* The objects of one call.  A dict and a list are objects with an address; *)
(* a dict holds the address of a list where the story holds a list, 0 for  *)
(* None; a row is a list of dicts.  Row 1 is the caller's list.            *)
(***************************************************************************)
NoObjects == [dicts |-> <<>>, lists |-> <<>>, rows |-> <<>>]

\* the value of an expression, taken once
Only(values) == CHOOSE value \in values : TRUE

ListKeySeq == <<"Tags", "requirements", "acceptance_criteria", "source_files">>

\* [...]: a new list, at the address Len(lists) of the result
NewList(heap, xs) == [heap EXCEPT !.lists = Append(@, xs)]

\* []: a new row, at the address Len(rows) of the result
NewRow(heap) == [heap EXCEPT !.rows = Append(@, <<>>)]

\* row.append(d)
AppendTo(heap, row, d) == [heap EXCEPT !.rows[row] = Append(@, d)]

\* xs.extend(ys)
Extend(heap, xs, ys) == [heap EXCEPT !.lists[xs] = @ \o ys]

\* the lists of a story as objects: <<heap, the story with their addresses>>
RECURSIVE Shelve(_, _, _)
Shelve(heap, story, keys) ==
  IF keys = <<>> THEN <<heap, story>>
  ELSE IF keys[1] \notin DOMAIN story THEN Shelve(heap, story, Tail(keys))
  ELSE IF IsNull(story, keys[1]) THEN Shelve(heap, Put(story, keys[1], 0), Tail(keys))
  ELSE Only({Shelve(NewList(h, story[keys[1]]), Put(story, keys[1], Len(h.lists) + 1),
                    Tail(keys)) : h \in {heap}})

\* a story as a new dict, at the address Len(dicts) of the result
NewDict(heap, story) ==
  Only({[shelved[1] EXCEPT !.dicts = Append(@, shelved[2])] :
          shelved \in {Shelve(heap, story, ListKeySeq)}})

\* the list the caller holds: its stories as dicts, in row 1
RECURSIVE Load(_, _)
Load(heap, stories) ==
  IF stories = <<>> THEN heap
  ELSE Only({Load(AppendTo(NewDict(h, stories[1]), 1, Len(h.dicts) + 1), Tail(stories)) :
               h \in {heap}})

Argument(stories) == Load(NewRow(NoObjects), stories)

\* the story a dict holds
Value(heap, d) ==
  [key \in DOMAIN heap.dicts[d] |->
     IF key \notin ListKeys THEN heap.dicts[d][key]
     ELSE IF heap.dicts[d][key] = 0 THEN NoneAt(key)
     ELSE heap.lists[heap.dicts[d][key]]]

\* the stories of a row, as the holder of the row reads them
ValuesOf(heap, row) == [i \in 1..Len(heap.rows[row]) |-> Value(heap, heap.rows[row][i])]

\* d.copy(): a new dict with the entries of d, the lists shared; at the address
\* Len(dicts) of the result
Copy(heap, d) == [heap EXCEPT !.dicts = Append(@, @[d])]

\* d[key] = value[key] for the keys that value has
Assign(heap, d, value, keys) ==
  [heap EXCEPT !.dicts[d] =
     [key \in DOMAIN @ \cup (keys \cap DOMAIN value) |->
        IF key \in keys /\ key \in DOMAIN value THEN value[key] ELSE @[key]]]

\* variant of CleanRound: the clean_* keys are assigned to the story itself
CleanRoundInPlace(heap, story, cleaned_story, cleaned) ==
  AppendTo(Assign(heap, story, cleaned_story,
                  {"clean_text", "clean_capability", "clean_snippet"}),
           cleaned, story)

\* one round of the loop of _clean_stories: the copy of story gets the clean_*
\* keys of cleaned_story and is appended to the row cleaned
CleanRound(heap, story, cleaned_story, cleaned) ==
  Only({AppendTo(Assign(Copy(h, story), Len(h.dicts) + 1, cleaned_story,
                        {"clean_text", "clean_capability", "clean_snippet"}),
                 cleaned, Len(h.dicts) + 1) : h \in {heap}})

\* _clean_stories on the caller's row from story i on; cleaned_stories are the
\* values it computes, cleaned the row it fills
RECURSIVE CleanRounds(_, _, _, _)
CleanRounds(heap, i, cleaned_stories, cleaned) ==
  IF i > Len(cleaned_stories) THEN heap
  ELSE Only({CleanRounds(CleanRound(h, h.rows[1][i], cleaned_stories[i], cleaned), i + 1,
                         cleaned_stories, cleaned) : h \in {heap}})

\* cleaned = [] is row 2
CleanOnHeap(heap, cleaned_stories) == CleanRounds(NewRow(heap), 1, cleaned_stories, 2)

\* for story in story_group: if key in story: all.extend(story[key])
RECURSIVE ExtendAll(_, _, _, _)
ExtendAll(heap, all, story_group, key) ==
  IF story_group = <<>> THEN heap
  ELSE Only({ExtendAll(IF key \in DOMAIN h.dicts[story_group[1]]
                          /\ h.dicts[story_group[1]][key] /= 0
                         THEN Extend(h, all, h.lists[h.dicts[story_group[1]][key]])
                         ELSE h,
                       all, Tail(story_group), key) : h \in {heap}})

\* merged[key] = list(set(all)), all being a new list that the lists of the
\* group were added to; the new list holds what merged_story holds under key
MergeLists(heap, merged, story_group, key, merged_story) ==
  Only({Only({[NewList(h, merged_story[key]) EXCEPT
                 !.dicts[merged] = Put(@, key, Len(h.lists) + 1)] :
                h \in {ExtendAll(NewList(g, <<>>), Len(g.lists) + 1, story_group, key)}}) :
          g \in {heap}})

\* merged['source_files'] = [...]
SetNewList(heap, merged, key, merged_story) ==
  Only({[NewList(h, merged_story[key]) EXCEPT
           !.dicts[merged] = Put(@, key, Len(h.lists) + 1)] : h \in {heap}})

\* _merge_story_group on the dicts of a group; merged_story is the value it
\* computes, merged_stories the row its result is appended to
MergeOnHeap(heap, story_group, merged_story, merged_stories) ==
  Only({AppendTo(
          Assign(
            SetNewList(
              MergeLists(
                MergeLists(
                  MergeLists(
                    Assign(Copy(h, story_group[1]), Len(h.dicts) + 1, merged_story,
                           {"User Story", "Capability", "Snippet"}),
                    Len(h.dicts) + 1, story_group, "Tags", merged_story),
                  Len(h.dicts) + 1, story_group, "requirements", merged_story),
                Len(h.dicts) + 1, story_group, "acceptance_criteria", merged_story),
              Len(h.dicts) + 1, "source_files", merged_story),
            Len(h.dicts) + 1, merged_story, {"duplicate_count", "Match Score"}),
          merged_stories, Len(h.dicts) + 1) : h \in {heap}})

\* the first loop of _merge_duplicates from group g on; the dicts of a group are
\* those of the cleaned row
RECURSIVE MergeGroups(_, _, _, _)
MergeGroups(heap, g, duplicate_groups, merged_values) ==
  IF g > Len(duplicate_groups) THEN heap
  ELSE Only({MergeGroups(
               MergeOnHeap(h, [k \in 1..Len(duplicate_groups[g]) |->
                                 h.rows[2][duplicate_groups[g][k]]],
                           merged_values[g], 3),
               g + 1, duplicate_groups, merged_values) : h \in {heap}})

\* the second loop of _merge_duplicates: the stories of no group are appended
\* as they are
RECURSIVE AppendUnmerged(_, _, _)
AppendUnmerged(heap, i, merged_indices) ==
  Only({IF i > Len(h.rows[2]) THEN h
        ELSE AppendUnmerged(IF i \in merged_indices THEN h ELSE AppendTo(h, 3, h.rows[2][i]),
                            i + 1, merged_indices) : h \in {heap}})

\* merged_stories = [] is row 3
MergeDuplicatesOnHeap(heap, duplicate_groups, merged_values) ==
  AppendUnmerged(MergeGroups(NewRow(heap), 1, duplicate_groups, merged_values), 1,
                 SeqToSet(Flatten(duplicate_groups)))

\* the loop of _calculate_final_scores from story i of row 3 on: the copy of the
\* story gets the score and is appended to row 4
RECURSIVE ScoreRounds(_, _, _)
ScoreRounds(heap, i, scored_values) ==
  Only({IF i > Len(h.rows[3]) THEN h
        ELSE ScoreRounds(AppendTo(Assign(Copy(h, h.rows[3][i]), Len(h.dicts) + 1,
                                         scored_values[i], {"Match Score"}),
                                  4, Len(h.dicts) + 1),
                         i + 1, scored_values) : h \in {heap}})

\* row.sort(key=Match Score, reverse=True), in place
SortRow(heap, row) ==
  Only({[h EXCEPT !.rows[row] =
           Only({[i \in 1..Len(sorted) |-> sorted[i]["at"]] :
                   sorted \in {SortByScore(<<>>,
                                 [i \in 1..Len(h.rows[row]) |->
                                    ("at" :> h.rows[row][i])
                                    @@ ("Match Score"
                                        :> Get(h.dicts[h.rows[row][i]], "Match Score", 0))])}})] :
          h \in {heap}})

\* scored_stories = [] is row 4
ScoreOnHeap(heap, scored_values) == SortRow(ScoreRounds(NewRow(heap), 1, scored_values), 4)

\* the list the caller handed over, as the caller finds it
Caller(heap) == ValuesOf(heap, 1)

(***************************************************************************)
(* State                                                                   *)
(***************************************************************************)
VARIABLES
  hash_seed,            \* the string hash order of the worker process
  similarity_threshold, \* DeduplicationEngine.similarity_threshold
  phase,                \* "idle", "called" (argument handed over), "returned"
  stories,              \* the argument of deduplicate_and_score
  cleaned_stories,      \* its locals, as the call left them
  duplicate_groups,
  merged_stories,
  scored_stories,       \* its return value
  previous_result,      \* the return value of the run before, on the same input
  extraction_engine,    \* the worker's ExtractionEngine instance
  extraction_phase,     \* "idle", "called", "returned"
  processed_documents,  \* the argument of extract_stories
  llm_replies,          \* what the LLM did in the call, per document and paragraph
  structured_stories,   \* its return value
  previous_extraction   \* the return value of the run before, on the same documents

dedup_vars == <<hash_seed, similarity_threshold, phase, stories, cleaned_stories,
                duplicate_groups, merged_stories, scored_stories, previous_result>>

extraction_vars == <<extraction_engine, extraction_phase, processed_documents,
                     llm_replies, structured_stories, previous_extraction>>

vars == <<dedup_vars, extraction_vars>>

\* the extraction side at rest
ExtractionIdle ==
  /\ extraction_phase = "idle"
  /\ processed_documents = <<>>
  /\ llm_replies = <<>>
  /\ structured_stories = <<>>
  /\ previous_extraction = NoResult

\* the deduplication side at rest
DedupIdle ==
  /\ phase = "idle"
  /\ stories = <<>>
  /\ cleaned_stories = <<>>
  /\ duplicate_groups = <<>>
  /\ merged_stories = <<>>
  /\ scored_stories = <<>>
  /\ previous_result = NoResult

Init ==
  /\ extraction_engine = ExtractionEngine(NoConstruct, "patterns", FALSE)
  /\ ExtractionIdle
  /\ hash_seed \in HashSeeds
  /\ similarity_threshold \in Thresholds
  /\ phase = "idle"
  /\ stories = <<>>
  /\ cleaned_stories = <<>>
  /\ duplicate_groups = <<>>
  /\ merged_stories = <<>>
  /\ scored_stories = <<>>
  /\ previous_result = NoResult

\* the pipeline driver hands a story list to the engine
Submit(input) ==
  /\ phase = "idle"
  /\ phase' = "called"
  /\ stories' = input
  /\ UNCHANGED <<hash_seed, similarity_threshold, cleaned_stories, duplicate_groups,
                 merged_stories, scored_stories, previous_result>>
  /\ UNCHANGED extraction_vars

\* variant of DeduplicateAndScore: the empty input gets a status record for an
\* answer, as get_deduplication_summary gives one
DeduplicateAndScoreStatusOnEmpty ==
  /\ phase = "called"
  /\ phase' = "returned"
  /\ cleaned_stories' = _clean_stories(stories)
  /\ duplicate_groups' = _find_duplicates(cleaned_stories', similarity_threshold)
  /\ merged_stories' = _merge_duplicates(cleaned_stories', duplicate_groups', hash_seed)
  /\ scored_stories' = IF stories = <<>> THEN <<[status |-> "no_stories"]>>
                       ELSE SortByScore(<<>>, _calculate_final_scores(merged_stories'))
  /\ UNCHANGED <<hash_seed, similarity_threshold, stories, previous_result>>
  /\ UNCHANGED extraction_vars

\* deduplicate_and_score(stories), from entry to return or to the exception
\* that leaves it (nothing in the function catches one); stories is the
\* caller's list as the objects of the call leave it
DeduplicateAndScore ==
  /\ phase = "called"
  /\ IF stories = <<>>
       THEN /\ phase' = "returned"
            /\ cleaned_stories' = <<>>
            /\ duplicate_groups' = <<>>
            /\ merged_stories' = <<>>
            /\ scored_stories' = <<>>
            /\ stories' = Caller(Argument(stories))
       ELSE /\ cleaned_stories' = _clean_stories(stories)
            /\ duplicate_groups' = _find_duplicates(cleaned_stories', similarity_threshold)
            /\ IF RaisesInMerge(cleaned_stories', duplicate_groups')
                 THEN /\ phase' = "raised"
                      /\ merged_stories' = <<>>
                      /\ scored_stories' = <<>>
                      /\ stories' = Caller(CleanOnHeap(Argument(stories), cleaned_stories'))
                 ELSE /\ merged_stories' =
                           _merge_duplicates(cleaned_stories', duplicate_groups', hash_seed)
                      /\ IF RaisesInScoring(merged_stories')
                           THEN /\ phase' = "raised"
                                /\ scored_stories' = <<>>
                                /\ stories' =
                                     Caller(MergeDuplicatesOnHeap(
                                              CleanOnHeap(Argument(stories), cleaned_stories'),
                                              duplicate_groups', merged_stories'))
                           ELSE /\ phase' = "returned"
                                /\ \E scored \in {_calculate_final_scores(merged_stories')} :
                                     /\ scored_stories' = SortByScore(<<>>, scored)
                                     /\ stories' =
                                          Caller(ScoreOnHeap(
                                                   MergeDuplicatesOnHeap(
                                                     CleanOnHeap(Argument(stories),
                                                                 cleaned_stories'),
                                                     duplicate_groups', merged_stories'),
                                                   scored))
  /\ UNCHANGED <<hash_seed, similarity_threshold, previous_result>>
  /\ UNCHANGED extraction_vars

\* a second pipeline run over the identical input
RunAgain ==
  /\ phase = "returned"
  /\ ~previous_result.returned
  /\ phase' = "called"
  /\ previous_result' = [returned |-> TRUE, value |-> scored_stories]
  /\ UNCHANGED <<hash_seed, similarity_threshold, stories, cleaned_stories, duplicate_groups,
                 merged_stories, scored_stories>>
  /\ UNCHANGED extraction_vars

\* the worker process is restarted between two runs: strings hash differently
RestartWorker ==
  /\ phase = "called"
  /\ previous_result.returned
  /\ hash_seed' \in HashSeeds \ {hash_seed}
  /\ UNCHANGED <<similarity_threshold, phase, stories, cleaned_stories, duplicate_groups,
                 merged_stories, scored_stories, previous_result>>
  /\ UNCHANGED extraction_vars

\* the driver is done with the result, or with the exception
Finish ==
  /\ phase \in {"returned", "raised"}
  /\ phase' = "idle"
  /\ stories' = <<>>
  /\ cleaned_stories' = <<>>
  /\ duplicate_groups' = <<>>
  /\ merged_stories' = <<>>
  /\ scored_stories' = <<>>
  /\ previous_result' = NoResult
  /\ UNCHANGED <<hash_seed, similarity_threshold>>
  /\ UNCHANGED extraction_vars

Next ==
  \/ \E input \in Inputs : Submit(input)
  \/ DeduplicateAndScore
  \/ RunAgain
  \/ RestartWorker
  \/ Finish

Spec == Init /\ [][Next]_vars

\* the same engine handed records with null fields
NextNullable ==
  \/ \E input \in NullableInputs : Submit(input)
  \/ DeduplicateAndScore
  \/ Finish

SpecNullable == Init /\ [][NextNullable]_vars

(***************************************************************************)
(* The extraction side: one ExtractionEngine serving extract_stories calls *)
(***************************************************************************)
InitExtract ==
  /\ extraction_engine \in Engines \cup RulesEngines
  /\ ExtractionIdle
  /\ hash_seed = <<"audit trail", "manager", "workflow">>
  /\ similarity_threshold = DefaultThreshold
  /\ DedupIdle

\* the pipeline driver hands the processed documents to the engine
SubmitDocuments(documents) ==
  /\ extraction_phase = "idle"
  /\ extraction_phase' = "called"
  /\ processed_documents' = documents
  /\ UNCHANGED <<extraction_engine, llm_replies, structured_stories, previous_extraction>>
  /\ UNCHANGED dedup_vars

\* extract_stories(processed_documents), from entry to return
ExtractStories(replies) ==
  /\ extraction_phase = "called"
  /\ extraction_phase' = "returned"
  /\ llm_replies' = replies
  /\ \E result \in {extract_stories(extraction_engine, processed_documents, replies)} :
       /\ structured_stories' = result.stories
       /\ extraction_engine' = Counting(extraction_engine, result)
  /\ UNCHANGED <<processed_documents, previous_extraction>>
  /\ UNCHANGED dedup_vars

\* a second pipeline run over the identical documents, on the same engine instance
ExtractAgain ==
  /\ extraction_phase = "returned"
  /\ ~previous_extraction.returned
  /\ extraction_phase' = "called"
  /\ previous_extraction' = [returned |-> TRUE, value |-> structured_stories]
  /\ UNCHANGED <<extraction_engine, processed_documents, llm_replies, structured_stories>>
  /\ UNCHANGED dedup_vars

\* the worker process ends; the next one constructs its engine anew
FinishExtraction ==
  /\ extraction_phase = "returned"
  /\ extraction_phase' = "idle"
  /\ processed_documents' = <<>>
  /\ llm_replies' = <<>>
  /\ structured_stories' = <<>>
  /\ previous_extraction' = NoResult
  /\ extraction_engine' = [extraction_engine EXCEPT !.story_counter = 1]
  /\ UNCHANGED dedup_vars

NextExtract ==
  \/ \E documents \in DocumentLists : SubmitDocuments(documents)
  \/ \E replies \in ReplyChoices(extraction_engine, processed_documents) : ExtractStories(replies)
  \/ ExtractAgain
  \/ FinishExtraction

SpecExtract == InitExtract /\ [][NextExtract]_vars

(***************************************************************************)
(* The pipeline: extract_stories, then deduplicate_and_score on its result *)
(***************************************************************************)
InitPipeline ==
  /\ extraction_engine \in Engines
  /\ ExtractionIdle
  /\ hash_seed \in TagSeeds
  /\ similarity_threshold = DefaultThreshold
  /\ DedupIdle

\* the pipeline driver passes the structured stories on to the deduplication
HandOver ==
  /\ extraction_phase = "returned"
  /\ phase = "idle"
  /\ extraction_phase' = "handed"
  /\ phase' = "called"
  /\ stories' = structured_stories
  /\ UNCHANGED <<hash_seed, similarity_threshold, cleaned_stories, duplicate_groups,
                 merged_stories, scored_stories, previous_result>>
  /\ UNCHANGED <<extraction_engine, processed_documents, llm_replies,
                 structured_stories, previous_extraction>>

\* the job is done; the worker's engine stays for the next job
FinishJob ==
  /\ extraction_phase = "handed"
  /\ phase = "returned"
  /\ extraction_phase' = "idle"
  /\ processed_documents' = <<>>
  /\ llm_replies' = <<>>
  /\ structured_stories' = <<>>
  /\ previous_extraction' = NoResult
  /\ extraction_engine' = [extraction_engine EXCEPT !.story_counter = 1]
  /\ phase' = "idle"
  /\ stories' = <<>>
  /\ cleaned_stories' = <<>>
  /\ duplicate_groups' = <<>>
  /\ merged_stories' = <<>>
  /\ scored_stories' = <<>>
  /\ UNCHANGED <<hash_seed, similarity_threshold, previous_result>>

NextPipeline ==
  \/ \E documents \in DocumentLists : SubmitDocuments(documents)
  \/ \E replies \in ReplyChoices(extraction_engine, processed_documents) : ExtractStories(replies)
  \/ ExtractAgain
  \/ HandOver
  \/ DeduplicateAndScore
  \/ FinishJob

SpecPipeline == InitPipeline /\ [][NextPipeline]_vars

(***************************************************************************)
(* _find_duplicates by itself, on the cleaned copy of a story list         *)
(***************************************************************************)
InitFind ==
  /\ extraction_engine = ExtractionEngine(NoConstruct, "patterns", FALSE)
  /\ ExtractionIdle
  /\ hash_seed = <<"audit trail", "manager", "workflow">>
  /\ similarity_threshold \in Thresholds
  /\ DedupIdle

\* deduplicate_and_score up to the call of _find_duplicates
CleanStories(input) ==
  /\ phase = "idle"
  /\ phase' = "cleaned"
  /\ stories' = input
  /\ cleaned_stories' = _clean_stories(input)
  /\ UNCHANGED <<hash_seed, similarity_threshold, duplicate_groups, merged_stories,
                 scored_stories, previous_result>>
  /\ UNCHANGED extraction_vars

\* _find_duplicates(cleaned_stories), from entry to return
FindDuplicates ==
  /\ phase = "cleaned"
  /\ phase' = "grouped"
  /\ duplicate_groups' = _find_duplicates(cleaned_stories, similarity_threshold)
  /\ UNCHANGED <<hash_seed, similarity_threshold, stories, cleaned_stories, merged_stories,
                 scored_stories, previous_result>>
  /\ UNCHANGED extraction_vars

\* the groups are dropped
FinishFind ==
  /\ phase = "grouped"
  /\ phase' = "idle"
  /\ stories' = <<>>
  /\ cleaned_stories' = <<>>
  /\ duplicate_groups' = <<>>
  /\ UNCHANGED <<hash_seed, similarity_threshold, merged_stories, scored_stories,
                 previous_result>>
  /\ UNCHANGED extraction_vars

NextFind ==
  \/ \E input \in GroupInputs : CleanStories(input)
  \/ FindDuplicates
  \/ FinishFind

SpecFind == InitFind /\ [][NextFind]_vars

(***************************************************************************)
(* Properties                                                              *)
(***************************************************************************)
Returned == phase = "returned"

IsMerged(story) == "duplicate_count" \in DOMAIN story

\* xs is strictly ascending in Python's string order: sorted and duplicate free
StrictlyAscending(xs) == \A i \in 1..Len(xs) : \A j \in (i + 1)..Len(xs) : StrLess(xs[i], xs[j])

\* C1: every story deduplicate_and_score returns for a non-empty input, merged
\* or not, has a Match Score in [0, 1] (the input scores are in [0, 1] or absent)
C1_MatchScoreInUnitInterval ==
  (Returned /\ stories /= <<>>) =>
    \A p \in 1..Len(scored_stories) :
      /\ "Match Score" \in DOMAIN scored_stories[p]
      /\ scored_stories[p]["Match Score"] \in 0..ScoreOne

\* a run that returns a merged and an unmerged story, from an input holding the
\* scores 1.0 and 0.0 and a story without a score
C1_Witness ==
  /\ Returned
  /\ \E p, q \in 1..Len(scored_stories) :
       IsMerged(scored_stories[p]) /\ ~IsMerged(scored_stories[q])
  /\ \E i, j, k \in 1..Len(stories) :
       /\ Get(stories[i], "Match Score", HalfScore) = ScoreOne
       /\ Get(stories[j], "Match Score", HalfScore) = 0
       /\ "Match Score" \notin DOMAIN stories[k]

\* C2: two stories with the identical non-empty User Story and an empty
\* Capability, at the default threshold, form one duplicate group and come out
\* as one merged story with duplicate_count 2 whose source lists both originals
C2_IdenticalTextsMerge ==
  ( /\ Returned
    /\ similarity_threshold = DefaultThreshold
    /\ Len(stories) = 2
    /\ stories[1]["User Story"] /= ""
    /\ stories[1]["User Story"] = stories[2]["User Story"]
    /\ stories[1]["Capability"] = ""
    /\ stories[2]["Capability"] = "" )
  => /\ duplicate_groups = << <<1, 2>> >>
     /\ Len(scored_stories) = 1
     /\ Get(scored_stories[1], "duplicate_count", 1) = 2
     /\ LET both == <<stories[1]["Source"], stories[2]["Source"]>>
        IN  \/ scored_stories[1]["Source"] = both
            \/ Get(scored_stories[1], "source_files", <<>>) = both

\* C3: a second call of deduplicate_and_score on the identical input, at the
\* same threshold, returns the identical sequence: same length and order, same
\* text fields, same Tags, requirements and acceptance_criteria sequences, same
\* Match Score
C3_SecondRunIdentical ==
  (Returned /\ previous_result.returned) => scored_stories = previous_result.value

\* the User Story ID of a structured story or of a raw candidate
StoryId(story) ==
  IF "User Story ID" \in DOMAIN story THEN story["User Story ID"] ELSE story["user_story_id"]

\* C4: every call of extract_stories mints its IDs from US-1 on, so a second run
\* over the identical documents on the same engine gives the same stories the
\* same IDs (stated for the engines that never ask the LLM, whose extraction
\* depends on the documents alone)
C4_IdsRestartEveryRun ==
  (extraction_phase = "returned" /\ ~AsksLLM(extraction_engine)) =>
    /\ structured_stories /= <<>> =>
         \E p \in 1..Len(structured_stories) : StoryId(structured_stories[p]) = "US-1"
    /\ previous_extraction.returned =>
         /\ Len(structured_stories) = Len(previous_extraction.value)
         /\ \A p \in 1..Len(structured_stories) :
              StoryId(structured_stories[p]) = StoryId(previous_extraction.value[p])

\* C5: the Tags of every story are duplicate free and sorted ascending, as the
\* structurer produces them and as deduplicate_and_score returns them, merged
\* stories included
C5_TagsSortedUnique ==
  /\ \A p \in 1..Len(structured_stories) :
       StrictlyAscending(Get(structured_stories[p], "Tags", <<>>))
  /\ Returned =>
       \A p \in 1..Len(scored_stories) : StrictlyAscending(Get(scored_stories[p], "Tags", <<>>))

\* C6: the output of deduplicate_and_score is ordered by non-increasing Match Score
C6_SortedByScore ==
  Returned =>
    \A p, q \in 1..Len(scored_stories) :
      p < q => scored_stories[p]["Match Score"] >= scored_stories[q]["Match Score"]

\* a run whose final sort moved a story: the output has two different scores
\* and is not in the order the merge step left
C6_Witness ==
  /\ Returned
  /\ \E p, q \in 1..Len(scored_stories) :
       scored_stories[p]["Match Score"] > scored_stories[q]["Match Score"]
  /\ \E p \in 1..Len(scored_stories) :
       scored_stories[p]["User Story ID"] /= merged_stories[p]["User Story ID"]

\* the input position an entry of merged_stories stands for: the first member of
\* its group, or the story's own position
OriginOf(k) ==
  IF k <= Len(duplicate_groups) THEN duplicate_groups[k][1]
  ELSE LET grouped == SeqToSet(Flatten(duplicate_groups))
           loose == {i \in 1..Len(stories) : i \notin grouped}
       IN  CHOOSE i \in loose :
             Cardinality({j \in loose : j < i}) = k - Len(duplicate_groups) - 1

\* C7: output stories with equal Match Score stand in the order of their input
\* positions, a merged story counting at its earliest member: a merged story
\* never overtakes a tied unmerged story that came earlier in the input
C7_TiesKeepInputOrder ==
  (Returned /\ stories /= <<>>) =>
    \E place \in [1..Len(scored_stories) -> 1..Len(merged_stories)] :
      /\ \A p, q \in 1..Len(scored_stories) : p /= q => place[p] /= place[q]
      /\ \A p \in 1..Len(scored_stories) :
           scored_stories[p] = Put(merged_stories[place[p]], "Match Score",
                                   scored_stories[p]["Match Score"])
      /\ \A p, q \in 1..Len(scored_stories) :
           (p < q /\ scored_stories[p]["Match Score"] = scored_stories[q]["Match Score"])
             => OriginOf(place[p]) < OriginOf(place[q])

\* C8: deduplicate_and_score never returns more stories than it was given
C8_NoMoreThanGiven == Returned => Len(scored_stories) <= Len(stories)

\* a run that merged a group beside a story it left alone
C8_Witness ==
  /\ Returned
  /\ Len(stories) = MaxStories
  /\ Len(scored_stories) = 2
  /\ \E p \in 1..2 : IsMerged(scored_stories[p])

\* C9: for a one-story input the output is one story that equals the input in
\* every field but Match Score, with no field added or removed, and whose Match
\* Score is the final score of the input story
C9_SingleStoryUnchanged ==
  (Returned /\ Len(stories) = 1) =>
    /\ Len(scored_stories) = 1
    /\ DOMAIN scored_stories[1] \ {"Match Score"} = DOMAIN stories[1] \ {"Match Score"}
    /\ \A key \in DOMAIN stories[1] \ {"Match Score"} : scored_stories[1][key] = stories[1][key]
    /\ Get(scored_stories[1], "Match Score", 0) = FinalScore(stories[1])

\* C10: deduplicate_and_score on the empty list returns the empty list; the
\* call returns, it raises nothing
C10_EmptyInEmptyOut ==
  /\ (phase = "called" /\ stories = <<>>) => ENABLED DeduplicateAndScore
  /\ (Returned /\ stories = <<>>) => scored_stories = <<>>

\* the call on the empty list has returned
C10_Witness == Returned /\ stories = <<>> /\ scored_stories = <<>>

\* _find_duplicates has returned duplicate_groups for cleaned_stories
Grouped == phase = "grouped"

\* the positions a group holds
Members(group) == SeqToSet(group)

\* positions a and b hold stories that _are_stories_similar takes for similar
Similar(a, b) == _are_stories_similar(cleaned_stories[a], cleaned_stories[b], similarity_threshold)

\* C11: every duplicate group _find_duplicates returns has at least 2 members,
\* and no story index stands in two groups or twice in one group
C11_GroupsDisjointPairs ==
  Grouped =>
    /\ \A g \in 1..Len(duplicate_groups) :
         /\ Len(duplicate_groups[g]) >= 2
         /\ Members(duplicate_groups[g]) \subseteq 1..Len(cleaned_stories)
    /\ \A g, h \in 1..Len(duplicate_groups) :
         \A a \in 1..Len(duplicate_groups[g]) : \A b \in 1..Len(duplicate_groups[h]) :
           (g /= h \/ a /= b) => duplicate_groups[g][a] /= duplicate_groups[h][b]

\* two groups were found, the second one opened between the members of the first
C11_Witness ==
  /\ Grouped
  /\ Len(duplicate_groups) = 2
  /\ duplicate_groups[1][1] < duplicate_groups[2][1]
  /\ duplicate_groups[2][1] < duplicate_groups[1][2]

\* the stories of xs carry pairwise distinct IDs
DistinctIds(xs) == \A p, q \in 1..Len(xs) : p /= q => StoryId(xs[p]) /= StoryId(xs[q])

\* C12: within one pipeline run no two stories that extract_stories returns
\* share a User Story ID, and no two stories that the following
\* deduplicate_and_score returns share one
C12_DistinctIdsInRun ==
  /\ extraction_phase \in {"returned", "handed"} => DistinctIds(structured_stories)
  /\ (extraction_phase = "handed" /\ Returned) => DistinctIds(scored_stories)

\* a run that extracted three stories and merged two of them
C12_Witness ==
  /\ extraction_phase = "handed"
  /\ Returned
  /\ Len(structured_stories) = 3
  /\ Len(scored_stories) = 2
  /\ \E p \in 1..2 : IsMerged(scored_stories[p])

\* C13: no exception leaves deduplicate_and_score, whatever the records hold:
\* missing, empty or null fields included, the call returns a list
C13_NoExceptionEscapes == phase /= "raised"


\* extract_stories has returned and its result is still at hand
Extracted == extraction_phase \in {"returned", "handed"}

\* the documents in the order extract_stories visits them
SortedDocuments == SortByFilename(<<>>, processed_documents)

\* the paragraphs the engine extracts from: <<d, i>> is paragraph i of sorted document d
Asked ==
  UNION {{<<d, i>> : i \in RelevantIndices(SortedDocuments[d])} :
           d \in 1..Len(SortedDocuments)}

\* the LLM call of the paragraph raised; without a client the OpenAI call always does
CallRaised(at) ==
  \/ AsksLLM(extraction_engine) /\ llm_replies[at[1]][at[2]] = "raises"
  \/ /\ extraction_engine.llm_provider = "openai"
     /\ ~extraction_engine.openai_client
     /\ ~PromptRaises(extraction_engine)

\* the LLM answered, with nothing usable
NothingUsable(at) ==
  AsksLLM(extraction_engine) /\ llm_replies[at[1]][at[2]] = "unusable"

CallFailed(at) == CallRaised(at) \/ NothingUsable(at)

\* the paragraph never reaches the LLM: the pattern extraction alone handles it
PatternsOnly(at) ==
  \/ extraction_engine.llm_provider = "patterns"
  \/ extraction_engine.llm_provider = "gemini" /\ ~extraction_engine.gemini_model
  \/ ProviderRaises(extraction_engine)

\* where a candidate comes from, as far as it tells: the file and the hash of the
\* text it was extracted from
Provenance(story) ==
  <<Get(story, "source_file", Get(story, "Source", "")),
    Get(story, "content_hash", Get(story, "Content Hash", ""))>>

\* the text of paragraph at
TextAt(at) == SortedDocuments[at[1]]["paragraphs"][at[2]]

\* the text the pattern extraction gets when it handles paragraph at
HandedAt(at) ==
  IF ProviderRaises(extraction_engine) THEN TextAt(at)
                                       ELSE AnalysedPool[TextAt(at)].processed_text

ProvenanceAt(at) == <<SortedDocuments[at[1]]["filename"], md5_hexdigest(HandedAt(at))>>

\* how many candidates of the run come from where paragraph at lies
CandidatesFrom(at) ==
  Cardinality({k \in 1..Len(structured_stories) :
                 Provenance(structured_stories[k]) = ProvenanceAt(at)})

\* how many of the paragraphs in set share the provenance of paragraph at
Sharing(at, set) == Cardinality({other \in set : ProvenanceAt(other) = ProvenanceAt(at)})

FellBack(at) ==
  extraction_engine.llm_provider = "gemini" /\ CallRaised(at)

IdNumber(story) ==
  CHOOSE n \in 1..extraction_engine.story_counter :
    StoryId(story) = _generate_sequential_id(n)

\* (filename, paragraph_index) of one candidate below that of another
MintedBefore(story1, story2) ==
  \/ StrLess(story1["source_file"], story2["source_file"])
  \/ /\ story1["source_file"] = story2["source_file"]
     /\ story1["paragraph_index"] < story2["paragraph_index"]

\* C15: of any two candidates that one call of extract_stories returns, the one
\* with the smaller (filename, paragraph_index) carries the smaller ID number,
\* whatever the order of the documents in the input list.  Read on the candidate
\* records, which an engine without a construct returns as they were minted.
C15_IdsFollowFilenameAndParagraph ==
  (Extracted /\ extraction_engine.construct = NoConstruct) =>
    \A p, q \in 1..Len(structured_stories) :
      MintedBefore(structured_stories[p], structured_stories[q])
        => IdNumber(structured_stories[p]) < IdNumber(structured_stories[q])


\* the content_hash a candidate gets on the normal path of the pattern provider
NormalPathHash(text, doc) ==
  _extract_story_from_text(ExtractionEngine(NoConstruct, "patterns", FALSE), text, doc, 0,
                           "unusable").stories[1]["content_hash"]

\* C16: the content_hash of a candidate depends on the text of its paragraph
\* alone, not on the extraction path: every candidate of a run, whatever the
\* engine and the path that produced it, carries the hash that the normal
\* provider path gives to a paragraph of its file.
C16_ContentHashOfTextAlone ==
  Extracted =>
    \A k \in 1..Len(structured_stories) :
      \E at \in Asked :
        /\ Provenance(structured_stories[k])[1] = SortedDocuments[at[1]]["filename"]
        /\ Provenance(structured_stories[k])[2]
             = NormalPathHash(TextAt(at), SortedDocuments[at[1]])


\* the field is there and holds neither None nor an empty text or list
NonEmpty(story, field) ==
  /\ field \in DOMAIN story
  /\ story[field] /= NoneAt(field)
  /\ story[field] /= (IF field \in ListKeys THEN <<>> ELSE "")

NonEmptyAmong(story, fields) == Cardinality({field \in fields : NonEmpty(story, field)})

Min(a, b) == IF a < b THEN a ELSE b

\* C17: the completeness score of every story that is scored is
\* min(1.0, 0.5 + 0.1 * (non-empty fields among User Story, Capability, Category,
\* Priority) + 0.05 * (non-empty fields among Snippet, Tags, requirements,
\* acceptance_criteria)); a story with User Story and Category alone scores 0.7.
C17_CompletenessScore ==
  Returned =>
    \A k \in 1..Len(merged_stories) :
      /\ _calculate_completeness_score(merged_stories[k])
           = Min(ScoreOne,
                 5 * Tenth
                 + Tenth * NonEmptyAmong(merged_stories[k],
                                         {"User Story", "Capability", "Category", "Priority"})
                 + (Tenth \div 2)
                   * NonEmptyAmong(merged_stories[k],
                                   {"Snippet", "Tags", "requirements", "acceptance_criteria"}))
      /\ ( /\ NonEmpty(merged_stories[k], "User Story")
           /\ NonEmpty(merged_stories[k], "Category")
           /\ NonEmptyAmong(merged_stories[k], {"Capability", "Priority", "Snippet", "Tags",
                                                "requirements", "acceptance_criteria"}) = 0 )
           => _calculate_completeness_score(merged_stories[k]) = 7 * Tenth

\* the story with User Story and Category alone is scored next to a story whose
\* eight fields are all there: 0.7 here, the cap of 1.0 there
C17_Witness ==
  /\ Returned
  /\ \E k, c \in 1..Len(merged_stories) :
       /\ DOMAIN stories[1] = {"User Story ID", "User Story", "Category"}
       /\ StoryId(merged_stories[k]) = StoryId(stories[1])
       /\ ~IsMerged(merged_stories[k])
       /\ _calculate_completeness_score(merged_stories[k]) = 7 * Tenth
       /\ NonEmptyAmong(merged_stories[c], required_fields \cup optional_fields) = 8
       /\ _calculate_completeness_score(merged_stories[c]) = ScoreOne
  /\ \E k \in 1..Len(scored_stories) :
       /\ StoryId(scored_stories[k]) = StoryId(stories[1])
       /\ scored_stories[k]["Match Score"] = 63 * (ScoreOne \div 100)


\* the positions that stand in the groups opened before position i was visited
AssignedBefore(i) ==
  UNION {Members(duplicate_groups[g]) :
           g \in {h \in 1..Len(duplicate_groups) : duplicate_groups[h][1] < i}}

\* the positions behind i that are unassigned when i is visited and similar to i
Followers(i) == {j \in (i + 1)..Len(cleaned_stories) : j \notin AssignedBefore(i) /\ Similar(i, j)}

\* C18: _find_duplicates clusters greedily around pivots.  The positions are
\* visited in ascending order; a position i that is unassigned when visited
\* opens a group of i and exactly those j > i that are unassigned when scanned
\* and similar to stories[i], and the group is reported when it has a follower.
\* So each group lists its members in ascending order, its first member is its
\* lowest position, every other member is similar to the first, the groups come
\* in the order of their first members, and a position outside every group has
\* no follower.
C18_GreedyPivotGroups ==
  Grouped =>
    /\ \A g \in 1..Len(duplicate_groups) :
         LET group == duplicate_groups[g]
         IN  /\ \A a \in 1..(Len(group) - 1) : group[a] < group[a + 1]
             /\ group[1] \notin AssignedBefore(group[1])
             /\ Members(group) = {group[1]} \cup Followers(group[1])
             /\ \A a \in 2..Len(group) : Similar(group[1], group[a])
             /\ g > 1 => duplicate_groups[g - 1][1] < group[1]
    /\ \A i \in 1..Len(cleaned_stories) :
         (\A g \in 1..Len(duplicate_groups) : i \notin Members(duplicate_groups[g]))
           => Followers(i) = {}

\* a pivot took two followers, and a later position that is similar to one of
\* them, but not to the pivot, found it assigned and stayed alone
C18_Witness ==
  /\ Grouped
  /\ Len(duplicate_groups) = 1
  /\ Len(duplicate_groups[1]) = 3
  /\ \E i \in 1..Len(cleaned_stories) : \E j \in (i + 1)..Len(cleaned_stories) :
       /\ i \notin Members(duplicate_groups[1])
       /\ duplicate_groups[1][1] < i
       /\ j \in Members(duplicate_groups[1])
       /\ Similar(i, j)
       /\ ~Similar(duplicate_groups[1][1], i)


\* position p is unassigned when it is visited, so the scan that follows compares
\* the later positions with stories[p]
Pivot(p) == p \in 1..Len(cleaned_stories) /\ p \notin AssignedBefore(p)

\* the group that position p opened, empty when none was reported
GroupOf(p) ==
  UNION {Members(duplicate_groups[g]) :
           g \in {h \in 1..Len(duplicate_groups) : duplicate_groups[h][1] = p}}

Compared == phase \in {"returned", "raised"} /\ cleaned_stories /= <<>>

\* a ratio <<numerator, denominator>> in thousandths, denominators cleared:
\* weight * ratio, times both denominators
Share(weight, ratio, other) == weight * 1000 * ratio[1] * other[2]

\* C20: _are_stories_similar(a, b) is true exactly when
\* 0.4 * lexical + 0.4 * capability + 0.2 * semantic >= similarity_threshold,
\* the threshold the engine was constructed with; the lexical score is 0 when a
\* clean_text is empty, the capability score 0 when a clean_capability is empty,
\* the semantic score 0 when a side has neither.  Stated for the first and the
\* last story of the list; every ordered pair of stories of the pool, and every
\* story with itself, is the first and last of some list.
C20_WeightedSimilarity ==
  Compared =>
    LET a == cleaned_stories[1]
        b == cleaned_stories[Len(cleaned_stories)]
        lexical == _calculate_text_similarity(a, b)
        capability == _calculate_capability_similarity(a, b)
        semantic == _calculate_semantic_similarity(a, b)
        Empty(story, key) == Get(story, key, "") = ""
    IN  /\ _are_stories_similar(a, b, similarity_threshold)
           <=> ( Share(4, lexical, capability) + Share(4, capability, lexical)
                   + 2 * semantic * lexical[2] * capability[2]
                 >= 10 * similarity_threshold * lexical[2] * capability[2] )
        /\ (Empty(a, "clean_text") \/ Empty(b, "clean_text")) => lexical[1] = 0
        /\ (Empty(a, "clean_capability") \/ Empty(b, "clean_capability")) => capability[1] = 0
        /\ ( \/ Empty(a, "clean_text") /\ Empty(a, "clean_capability")
             \/ Empty(b, "clean_text") /\ Empty(b, "clean_capability") ) => semantic = 0

\* at the default threshold two stories with the same text, one of them without
\* a capability, were compared: 0.4 * 1 + 0.4 * 0 + 0.2 * semantic is below 0.7,
\* and they were not grouped
C20_Witness ==
  /\ Compared
  /\ similarity_threshold = DefaultThreshold
  /\ Len(cleaned_stories) = 2
  /\ cleaned_stories[1]["clean_text"] = cleaned_stories[2]["clean_text"]
  /\ cleaned_stories[1]["clean_text"] /= ""
  /\ Get(cleaned_stories[1], "clean_capability", "") = ""
  /\ Get(cleaned_stories[2], "clean_capability", "") /= ""
  /\ _calculate_semantic_similarity(cleaned_stories[1], cleaned_stories[2]) > 0
  /\ ~_are_stories_similar(cleaned_stories[1], cleaned_stories[2], similarity_threshold)
  /\ duplicate_groups = <<>>


\* the members of group g, as _merge_duplicates hands them to _merge_story_group
GroupStories(g) ==
  [k \in 1..Len(duplicate_groups[g]) |-> cleaned_stories[duplicate_groups[g][k]]]

\* the values the members of group g hold under key, blank and null ones left out
Variants(g, key) ==
  LET texts == [k \in 1..Len(duplicate_groups[g]) |-> Get(GroupStories(g)[k], key, "")]
  IN  {k \in 1..Len(texts) : texts[k] /= NoneText /\ Strip(texts[k]) /= ""}

\* the trimmed, non-empty '.'-separated sentences of a text
Sentences(text) == {Strip(piece) : piece \in SeqToSet(SplitOn(text, "."))} \ {""}

\* C21: in the merged story of a duplicate group each of User Story, Capability
\* and Snippet begins with the longest non-empty variant of the group, the
\* earliest of equally long ones, and holds every sentence of every variant as a
\* substring; nothing is appended twice and nothing that the longest variant
\* holds already, so the merged value is no longer than the longest variant plus
\* ". " and the sentence for each distinct sentence the longest variant lacks.
\* Without a non-empty variant the merged value is the empty string.
C21_MergedTextFields ==
  Returned =>
    \A g \in 1..Len(duplicate_groups) :
      \A key \in {"User Story", "Capability", "Snippet"} :
        LET merged == merged_stories[g][key]
            texts == [k \in 1..Len(duplicate_groups[g]) |-> Get(GroupStories(g)[k], key, "")]
            variants == Variants(g, key)
        IN  IF variants = {} THEN merged = ""
            ELSE LET first == CHOOSE k \in variants :
                                /\ \A j \in variants : Len(texts[j]) <= Len(texts[k])
                                /\ \A j \in variants : j < k => Len(texts[j]) < Len(texts[k])
                     all == UNION {Sentences(texts[k]) : k \in variants}
                     lacking == {sentence \in all : ~Contains(texts[first], sentence)}
                 IN  /\ Len(merged) >= Len(texts[first])
                     /\ SubSeq(merged, 1, Len(texts[first])) = texts[first]
                     /\ \A sentence \in all : Contains(merged, sentence)
                     /\ Len(merged) <= Len(texts[first])
                                        + SumFn([sentence \in lacking |-> Len(sentence) + 2])

\* a group of two was merged whose second Snippet shares a sentence with the
\* longer first one and brings a new one: the new one alone was appended
C21_Witness ==
  /\ Returned
  /\ Len(duplicate_groups) = 1
  /\ Variants(1, "Snippet") = {1, 2}
  /\ \E old, new \in Sentences(GroupStories(1)[2]["Snippet"]) :
       /\ Contains(GroupStories(1)[1]["Snippet"], old)
       /\ ~Contains(GroupStories(1)[1]["Snippet"], new)
       /\ merged_stories[1]["Snippet"] = GroupStories(1)[1]["Snippet"] \o ". " \o new
  /\ Variants(1, "Capability") = {1, 2}
  /\ merged_stories[1]["Capability"] = GroupStories(1)[1]["Capability"]


\* the elements the members of group g hold under a list-valued key
MemberElements(g, key) ==
  UNION {SeqToSet(Get(GroupStories(g)[k], key, <<>>)) : k \in 1..Len(duplicate_groups[g])}

\* C22: the merged story of a duplicate group holds under Tags, requirements and
\* acceptance_criteria, as sets, the union of what its members hold there: no
\* element of a member is lost, none is invented.
C22_MergedListsAreUnions ==
  Returned =>
    \A g \in 1..Len(duplicate_groups) :
      \A key \in {"Tags", "requirements", "acceptance_criteria"} :
        /\ key \in DOMAIN merged_stories[g]
        /\ SeqToSet(merged_stories[g][key]) = MemberElements(g, key)

\* a merged story took its requirements and acceptance criteria from the second
\* member, the first one having none, and holds each tag of the two once
C22_Witness ==
  /\ Returned
  /\ Len(duplicate_groups) = 1
  /\ "requirements" \notin DOMAIN GroupStories(1)[1]
  /\ SeqToSet(merged_stories[1]["requirements"]) = {"workflow", "audit trail"}
  /\ merged_stories[1]["acceptance_criteria"] = <<"audit trail">>
  /\ SeqToSet(GroupStories(1)[2]["Tags"]) = {"manager"}
  /\ Len(merged_stories[1]["Tags"]) = 2
  /\ SeqToSet(merged_stories[1]["Tags"]) = {"manager", "workflow"}


\* C23 as stated: the merged story of a group lists the sources of all members,
\* one entry per member in group order, and its duplicate_count is the size of
\* the group.
C23_SourcePerMember ==
  Returned =>
    \A g \in 1..Len(duplicate_groups) :
      /\ merged_stories[g]["duplicate_count"] = Len(duplicate_groups[g])
      /\ Len(merged_stories[g]["source_files"]) = Len(duplicate_groups[g])
      /\ \A k \in 1..Len(duplicate_groups[g]) :
           merged_stories[g]["source_files"][k] = Get(GroupStories(g)[k], "Source", "")

\* the members of group g that name a source
Sourced(g) == {k \in 1..Len(duplicate_groups[g]) : Truthy(GroupStories(g)[k], "Source")}

\* C23 amended: the merged story of a group lists under source_files the sources
\* of the members that name one, in group order; a member without a Source
\* has no entry.  Its duplicate_count is the size of the group.
C23_SourcesOfSourcedMembers ==
  Returned =>
    \A g \in 1..Len(duplicate_groups) :
      /\ merged_stories[g]["duplicate_count"] = Len(duplicate_groups[g])
      /\ Len(merged_stories[g]["source_files"]) = Cardinality(Sourced(g))
      /\ \A k \in Sourced(g) :
           merged_stories[g]["source_files"][Cardinality({j \in Sourced(g) : j <= k})]
             = GroupStories(g)[k]["Source"]

\* three stories were merged, the middle one without a Source: two entries, in
\* the order of the group, and a duplicate_count of three
C23_Witness ==
  /\ Returned
  /\ Len(duplicate_groups) = 1
  /\ Sourced(1) = {1, 3}
  /\ merged_stories[1]["duplicate_count"] = 3
  /\ merged_stories[1]["source_files"]
       = <<GroupStories(1)[1]["Source"], GroupStories(1)[3]["Source"]>>


\* round(0.5 * base + 0.3 * quality + 0.2 * completeness, 3) for a story as it
\* stands after merging
WeightedScore(base, story) ==
  (ScoreOne \div 1000)
  * RoundHalfEven(5 * base + 3 * _calculate_quality_score(story)
                    + 2 * _calculate_completeness_score(story),
                  10 * (ScoreOne \div 1000))

\* the score a story enters the run with; 0.5 stands in for a missing one
InputScore(story) == Get(story, "Match Score", HalfScore)

\* the pre-final score of the k-th story handed to the scoring: the mean of the
\* members' scores for the merged story of group k, the input score of an
\* unmerged story; <<sum, count>>
BaseOf(k) ==
  IF k <= Len(duplicate_groups)
    THEN <<SumFn([m \in 1..Len(duplicate_groups[k]) |-> InputScore(GroupStories(k)[m])]),
           Len(duplicate_groups[k])>>
    ELSE <<InputScore(merged_stories[k]), 1>>

\* the k-th story handed to the scoring, with the score the claim gives it
Scored(k) ==
  Put(merged_stories[k], "Match Score",
      WeightedScore(BaseOf(k)[1] \div BaseOf(k)[2], merged_stories[k]))

\* C24: every output story carries the Match Score
\* round(0.5 * base + 0.3 * quality + 0.2 * completeness, 3), base being the input
\* Match Score of an unmerged story and the arithmetic mean of the members' Match
\* Scores of a merged one, quality and completeness being taken on the story as
\* it stands after merging; the output holds these stories and no other.
C24_FinalMatchScore ==
  (Returned /\ stories /= <<>>) =>
    /\ Len(scored_stories) = Len(merged_stories)
    /\ \A k \in 1..Len(merged_stories) :
         /\ BaseOf(k)[1] = BaseOf(k)[2] * (BaseOf(k)[1] \div BaseOf(k)[2])
         /\ Cardinality({p \in 1..Len(scored_stories) : scored_stories[p] = Scored(k)})
              = Cardinality({j \in 1..Len(merged_stories) : Scored(j) = Scored(k)})

\* a merged story of members with the scores 1.0 and none came out next to an
\* unmerged story: the mean 0.75 is the base of the one, the input score 0.8 of
\* the other
C24_Witness ==
  /\ Returned
  /\ Len(duplicate_groups) = 1
  /\ Len(merged_stories) = 2
  /\ InputScore(GroupStories(1)[1]) = ScoreOne
  /\ "Match Score" \notin DOMAIN GroupStories(1)[2]
  /\ BaseOf(1) = <<ScoreOne + HalfScore, 2>>
  /\ BaseOf(2) = <<8 * Tenth, 1>>
  /\ \E p, q \in 1..Len(scored_stories) :
       /\ scored_stories[p] = Scored(1)
       /\ scored_stories[q] = Scored(2)
       /\ scored_stories[p]["Match Score"] /= scored_stories[q]["Match Score"]


\* the groups that hold the input position i, as <<group, place>>
PlacesOf(i) ==
  {at \in (1..Len(duplicate_groups)) \X (1..MaxStories) :
     /\ at[2] <= Len(duplicate_groups[at[1]])
     /\ duplicate_groups[at[1]][at[2]] = i}

\* the output positions that stand for the input position i: the merged story
\* of its group, or the story itself, rescored
StandsFor(i) ==
  {p \in 1..Len(scored_stories) :
     IF PlacesOf(i) = {}
       THEN /\ "duplicate_count" \notin DOMAIN scored_stories[p]
            /\ \A key \in DOMAIN cleaned_stories[i] \ {"Match Score"} :
                 /\ key \in DOMAIN scored_stories[p]
                 /\ scored_stories[p][key] = cleaned_stories[i][key]
       ELSE \E at \in PlacesOf(i) :
              /\ "duplicate_count" \in DOMAIN scored_stories[p]
              /\ scored_stories[p]["duplicate_count"] = Len(duplicate_groups[at[1]])
              /\ scored_stories[p]["User Story ID"]
                   = Get(cleaned_stories[duplicate_groups[at[1]][1]], "User Story ID", "")}

\* sum(len(group) - 1 for group in duplicate_groups), the summary's
\* duplicates_removed
DuplicatesRemoved ==
  SumFn([g \in 1..Len(duplicate_groups) |-> Len(duplicate_groups[g]) - 1])

\* C25: deduplication conserves the stories: every input story is in at most
\* one group, at one place, and is stood for in the output by the merged story
\* of its group or by itself; the duplicate_count values of the output (1 for
\* an unmerged story) add up to the number of input stories, and the output has
\* as many stories as the input less the duplicates removed.
C25_Conservation ==
  (Returned /\ stories /= <<>>) =>
    /\ \A i \in 1..Len(stories) :
         /\ Cardinality(PlacesOf(i)) <= 1
         /\ StandsFor(i) /= {}
    /\ \A g \in 1..Len(duplicate_groups) :
         \A k \in 1..Len(duplicate_groups[g]) : duplicate_groups[g][k] \in 1..Len(stories)
    /\ SumFn([p \in 1..Len(scored_stories) |-> Get(scored_stories[p], "duplicate_count", 1)])
         = Len(stories)
    /\ Len(scored_stories) = Len(stories) - DuplicatesRemoved

\* three stories came in, two of them were merged and one was not
C25_Witness ==
  /\ Returned
  /\ Len(stories) = 3
  /\ DuplicatesRemoved = 1
  /\ Len(scored_stories) = 2
  /\ \E p, q \in 1..2 :
       /\ Get(scored_stories[p], "duplicate_count", 1) = 2
       /\ "duplicate_count" \notin DOMAIN scored_stories[q]


\* the input positions that reach the output unmerged
UnmergedPositions == {i \in 1..Len(cleaned_stories) : PlacesOf(i) = {}}

\* C26: after one pass no two unmerged stories are duplicates of each other:
\* for input positions i < j that both reach the output unmerged, the weighted
\* similarity of story i and story j is below the threshold.
C26_UnmergedAreNotDuplicates ==
  (Returned /\ stories /= <<>>) =>
    \A i, j \in UnmergedPositions : i < j => ~Similar(i, j)

\* two stories that share words reached the output unmerged: below the
\* threshold 0.7 of the run, they would have been merged at the lower one
C26_Witness ==
  /\ Returned
  /\ similarity_threshold = DefaultThreshold
  /\ \E i, j \in UnmergedPositions :
       /\ i < j
       /\ ~Similar(i, j)
       /\ \E lower \in Thresholds :
            /\ lower < similarity_threshold
            /\ _are_stories_similar(cleaned_stories[i], cleaned_stories[j], lower)
       /\ \E p, q \in 1..Len(scored_stories) :
            /\ p /= q
            /\ p \in StandsFor(i)
            /\ q \in StandsFor(j)


\* the keys that say which story a record is
IdentityKeys ==
  {"User Story ID", "Team", "Category", "Lifecycle Phase", "Priority", "Source",
   "Content Hash", "Extraction Method"}

\* record b has what record a has under the key: the same value, or neither has one
SameAt(a, b, key) ==
  /\ key \in DOMAIN a <=> key \in DOMAIN b
  /\ key \in DOMAIN a => a[key] = b[key]

\* the output positions that hold the merged story of group g
OutputOf(g) ==
  {p \in 1..Len(scored_stories) :
     /\ DOMAIN scored_stories[p] = DOMAIN merged_stories[g]
     /\ \A key \in DOMAIN merged_stories[g] \ {"Match Score"} :
          scored_stories[p][key] = merged_stories[g][key]}

\* C27: a merged story keeps the identity of the pivot: its User Story ID, Team,
\* Category, Lifecycle Phase, Priority, Source, Content Hash and Extraction
\* Method are those of the member of the lowest input position, whichever
\* member supplied the longest text.
C27_MergedKeepsPivotIdentity ==
  (Returned /\ stories /= <<>>) =>
    \A g \in 1..Len(duplicate_groups) :
      /\ \A k \in 2..Len(duplicate_groups[g]) :
           duplicate_groups[g][1] < duplicate_groups[g][k]
      /\ OutputOf(g) /= {}
      /\ \A p \in OutputOf(g) : \A key \in IdentityKeys :
           SameAt(stories[duplicate_groups[g][1]], scored_stories[p], key)

\* a later member supplied the User Story of a merged story, being the longest,
\* and differs from the pivot in an identity key; the merged story has the
\* pivot's
C27_Witness ==
  /\ Returned
  /\ \E g \in 1..Len(duplicate_groups) : \E k \in 2..Len(duplicate_groups[g]) :
       \E p \in OutputOf(g) :
         LET pivot == stories[duplicate_groups[g][1]]
             other == stories[duplicate_groups[g][k]]
         IN  /\ Len(Get(other, "User Story", "")) > Len(Get(pivot, "User Story", ""))
             /\ SubSeq(scored_stories[p]["User Story"], 1, Len(other["User Story"]))
                  = other["User Story"]
             /\ \A key \in IdentityKeys :
                  /\ key \in DOMAIN pivot
                  /\ key \in DOMAIN other
                  /\ pivot[key] /= other[key]
                  /\ scored_stories[p][key] = pivot[key]


\* the ID numbers of the candidates that the run returned
ReturnedNumbers == {IdNumber(structured_stories[k]) : k \in 1..Len(structured_stories)}

\* how many IDs the engine has handed out since it was constructed
Consumed == extraction_engine.story_counter - 1

\* C28: an ID is consumed only by a candidate that is produced: a paragraph
\* that yields no candidate (irrelevant content, an empty or unparsable LLM
\* reply, a parse error) leaves the counter alone, so the candidates of a run
\* carry consecutive ID numbers without a gap, and the engine has handed out as
\* many IDs as its runs returned candidates.
C28_IdsOnlyForCandidates ==
  Extracted =>
    /\ \A low, high \in ReturnedNumbers :
         \A n \in low..high : n \in ReturnedNumbers
    /\ Consumed = Len(structured_stories)
                   + (IF previous_extraction.returned THEN Len(previous_extraction.value)
                                                      ELSE 0)


\* the keys of a structured story that the deduplication reads
StructuredKeys ==
  {"User Story ID", "User Story", "Capability", "Category", "Priority", "Match Score", "Tags"}

\* C29: every record that extract_stories returns is a structured story: it has
\* the keys User Story ID, User Story, Capability, Category, Priority, Match
\* Score and Tags, whatever the construct of the engine, an empty or missing
\* one included.
C29_ReturnsStructuredStories ==
  Extracted =>
    \A p \in 1..Len(structured_stories) : StructuredKeys \subseteq DOMAIN structured_stories[p]


\* C30: deduplicate_and_score leaves its argument untouched: when the call is
\* over, the caller's list has the length and the order it had and every story
\* in it has the keys and the values it had (no clean_* key added, no Match
\* Score, Tags or text changed), whether the story was merged or not.
C30_ArgumentUntouched ==
  [][(phase = "called" /\ phase' /= "called") => stories' = stories]_vars

\* a call that merged two stories of three is over: the cleaned copies carry
\* clean_text, the merged story has other Tags and another text than its pivot,
\* every output story another Match Score than any input story, and the
\* caller's stories have no clean_* key
C30_Witness ==
  /\ Returned
  /\ Len(stories) = 3
  /\ Len(duplicate_groups) = 1
  /\ Len(scored_stories) = 2
  /\ \A i \in 1..Len(stories) :
       /\ "clean_text" \in DOMAIN cleaned_stories[i]
       /\ DOMAIN stories[i] \cap {"clean_text", "clean_capability", "clean_snippet"} = {}
       /\ \A p \in 1..Len(scored_stories) :
            Get(stories[i], "Match Score", HalfScore) /= scored_stories[p]["Match Score"]
  /\ LET pivot == stories[duplicate_groups[1][1]]
     IN  /\ "Tags" \in DOMAIN pivot
         /\ SeqToSet(merged_stories[1]["Tags"]) /= SeqToSet(pivot["Tags"])
         /\ merged_stories[1]["User Story"] /= pivot["User Story"]
         /\ "source_files" \notin DOMAIN pivot

============================================================================
